---- MODULE Spec2Model ----
(***************************************************************************)
(* InFileNameWeTrust: file content stored in the names of zero-byte        *)
(* storage objects.  The model covers the alphabet builders, the streaming *)
(* bit packer, the 4-byte length framing, the chunk splitter and the two   *)
(* storage back-ends, and the encode / decode pipelines built from them.   *)
(*                                                                         *)
(* Bytes are integers 0..255, characters are their code points, strings    *)
(* and byte strings are sequences.                                         *)
(***************************************************************************)
EXTENDS Integers, Sequences, FiniteSets, TLC

(***************************************************************************)
(* Bounds of the model.                                                    *)
(***************************************************************************)
\* longest segment handed to the codec in SpecCodec
MaxSegLen == 2

\* byte values the inputs are drawn from
ByteSamples == {0, 1, 255}

\* symbol widths the codec is exercised with in SpecCodec: the width of the
\* concrete scenario (3), a width dividing 8 (4), and the constructor's
CodecWidths == {3, 4}

RECURSIVE SeqsUpTo(_, _)
SeqsUpTo(S, n) ==
  IF n = 0 THEN {<<>>}
  ELSE LET shorter == SeqsUpTo(S, n - 1)
       IN shorter \cup {Append(s, x) : s \in shorter, x \in S}

(***************************************************************************)
(* Alphabet builders.                                                      *)
(***************************************************************************)
\* the test of handler.py with its last rule (space, period) left out
is_valid_bmp_char_no_last_rule(cp) ==
  ~(\/ cp > 65535
    \/ cp < 32 \/ cp = 127
    \/ cp \in 55296..57343
    \/ cp \in {92, 47, 58, 42, 63, 34, 60, 62, 124}
    \/ cp \in {65534, 65535})

\* handler.py: is_valid_bmp_char
handler_is_valid_bmp_char(cp) ==
  IF cp > 65535 THEN FALSE
  ELSE IF cp < 32 \/ cp = 127 THEN FALSE
  ELSE IF 55296 <= cp /\ cp <= 57343 THEN FALSE
  ELSE IF cp \in {92, 47, 58, 42, 63, 34, 60, 62, 124} THEN FALSE
  ELSE IF cp \in {65534, 65535} THEN FALSE
  ELSE IF cp \in {32, 46} THEN FALSE
  ELSE TRUE

\* utils.py: is_valid_bmp_char (the variant with the blob-store exclusions)
utils_is_valid_bmp_char(cp) ==
  IF cp > 65535 THEN FALSE
  ELSE IF cp < 32 \/ cp = 127 THEN FALSE
  ELSE IF 55296 <= cp /\ cp <= 57343 THEN FALSE
  ELSE IF 128 <= cp /\ cp <= 160 THEN FALSE
  ELSE IF 65024 <= cp /\ cp <= 65039 THEN FALSE
  ELSE IF 65520 <= cp /\ cp <= 65532 THEN FALSE
  ELSE IF 64926 <= cp /\ cp <= 65018 THEN FALSE
  ELSE IF 65436 <= cp /\ cp <= 65533 THEN FALSE
  ELSE IF cp \in {173, 65279, 65440} THEN FALSE
  ELSE IF cp \in {92, 47, 58, 42, 63, 34, 60, 62, 124} THEN FALSE
  ELSE IF cp \in {65534, 65535} THEN FALSE
  ELSE IF cp \in {32, 46} THEN FALSE
  ELSE TRUE

\* range(0x10000)
code_point_range == [i \in 1..65536 |-> i - 1]

\* handler.py: build_bmp_singleunit_alphabet
handler_build_bmp_singleunit_alphabet ==
  SelectSeq(code_point_range, handler_is_valid_bmp_char)

\* utils.py: build_bmp_singleunit_alphabet
utils_build_bmp_singleunit_alphabet ==
  SelectSeq(code_point_range, utils_is_valid_bmp_char)

(***************************************************************************)
(* Codec construction (InFileNameEncoder.__init__ and                      *)
(* InFileNameStorageCython.__init__ share this code).                      *)
(***************************************************************************)
\* the loop "while (1 << chunk_bits) <= base_size: chunk_bits += 1"
RECURSIVE chunk_bits_loop(_, _)
chunk_bits_loop(chunk_bits, base_size) ==
  IF 2^chunk_bits <= base_size
  THEN chunk_bits_loop(chunk_bits + 1, base_size)
  ELSE chunk_bits

\* chunk_bits had the constructor decremented it twice after the loop
init_chunk_bits_decremented_twice(alphabet) == chunk_bits_loop(0, Len(alphabet)) - 2

\* chunk_bits after the loop and the final "chunk_bits -= 1"
init_chunk_bits(alphabet) == chunk_bits_loop(0, Len(alphabet)) - 1

\* {ch: i for i, ch in enumerate(alphabet) if i < limit}, built over the
\* index range lo..hi
RECURSIVE reverse_map_range(_, _, _)
reverse_map_range(alphabet, lo, hi) ==
  IF lo = hi THEN (alphabet[lo + 1] :> lo)
  ELSE LET mid == (lo + hi) \div 2
       IN reverse_map_range(alphabet, lo, mid) @@ reverse_map_range(alphabet, mid + 1, hi)

init_reverse_map(alphabet, chunk_bits) ==
  reverse_map_range(alphabet, 0, 2^chunk_bits - 1)

\* the codec state of an InFileNameEncoder (encoder.py, alphabet of utils.py)
encoder_alphabet == utils_build_bmp_singleunit_alphabet
encoder_chunk_bits == init_chunk_bits(encoder_alphabet)
encoder_reverse_map == init_reverse_map(encoder_alphabet, encoder_chunk_bits)

\* the codec state of an InFileNameStorageCython (handler.py)
handler_alphabet == handler_build_bmp_singleunit_alphabet
handler_chunk_bits == init_chunk_bits(handler_alphabet)
handler_reverse_map == init_reverse_map(handler_alphabet, handler_chunk_bits)

(***************************************************************************)
(* Streaming bit packer (legacy/storage.py).  Python's bit_buffer is an    *)
(* unbounded integer that is never cleared; every read of it looks only at *)
(* its low bits_in_buffer bits, so the model keeps just those bits.        *)
(***************************************************************************)
\* the inner loop "while bits_in_buffer >= chunk_bits" of _encode_streaming
RECURSIVE encode_extract(_, _, _)
encode_extract(st, chunk_bits, alphabet) ==
  IF st.bits_in_buffer >= chunk_bits
  THEN LET bits == st.bits_in_buffer - chunk_bits
           index == (st.bit_buffer \div 2^bits) % 2^chunk_bits
       IN encode_extract([bit_buffer |-> st.bit_buffer % 2^bits,
                          bits_in_buffer |-> bits,
                          out_chars |-> Append(st.out_chars, alphabet[index + 1])],
                         chunk_bits, alphabet)
  ELSE st

\* the loop over the input bytes: the state after the first n bytes
RECURSIVE encode_bytes(_, _, _, _)
encode_bytes(data_bytes, n, chunk_bits, alphabet) ==
  IF n = 0 THEN [bit_buffer |-> 0, bits_in_buffer |-> 0, out_chars |-> <<>>]
  ELSE LET st == encode_bytes(data_bytes, n - 1, chunk_bits, alphabet)
       IN encode_extract([bit_buffer |-> st.bit_buffer * 256 + data_bytes[n],
                          bits_in_buffer |-> st.bits_in_buffer + 8,
                          out_chars |-> st.out_chars],
                         chunk_bits, alphabet)

\* _encode_streaming without its trailing partial digit
encode_no_flush(st, alphabet) == st.out_chars

\* the trailing partial digit of _encode_streaming
encode_flush(st, alphabet) ==
  IF st.bits_in_buffer > 0
  THEN Append(st.out_chars, alphabet[(st.bit_buffer % 2^st.bits_in_buffer) + 1])
  ELSE st.out_chars

_encode_streaming(data_bytes, chunk_bits, alphabet) ==
  encode_flush(encode_bytes(data_bytes, Len(data_bytes), chunk_bits, alphabet), alphabet)

\* the inner loop "while bits_in_buffer >= 8" of _decode_streaming
RECURSIVE decode_extract(_)
decode_extract(st) ==
  IF st.bits_in_buffer >= 8
  THEN LET bits == st.bits_in_buffer - 8
           byte_val == (st.bit_buffer \div 2^bits) % 256
       IN decode_extract([st EXCEPT !.bit_buffer = st.bit_buffer % 2^bits,
                                   !.bits_in_buffer = bits,
                                   !.out_bytes = Append(st.out_bytes, byte_val)])
  ELSE st

\* the loop over the characters: the state after the first n characters;
\* invalid is set by the character that raises ValueError and stops the loop
RECURSIVE decode_chars(_, _, _, _)
decode_chars(encoded_str, n, chunk_bits, char_to_value) ==
  IF n = 0
  THEN [bit_buffer |-> 0, bits_in_buffer |-> 0, out_bytes |-> <<>>, invalid |-> FALSE]
  ELSE LET st == decode_chars(encoded_str, n - 1, chunk_bits, char_to_value)
           ch == encoded_str[n]
       IN IF st.invalid THEN st
          ELSE IF ch \notin DOMAIN char_to_value
          THEN [st EXCEPT !.invalid = TRUE]
          ELSE decode_extract([st EXCEPT
                 !.bit_buffer = st.bit_buffer * 2^chunk_bits + char_to_value[ch],
                 !.bits_in_buffer = st.bits_in_buffer + chunk_bits])

\* _decode_streaming had it dropped the bits left over
decode_no_flush(st) == st.out_bytes

\* the trailing partial byte of _decode_streaming
decode_flush(st) ==
  IF st.bits_in_buffer > 0
  THEN Append(st.out_bytes, st.bit_buffer % 2^st.bits_in_buffer)
  ELSE st.out_bytes

\* _decode_streaming without its membership test: decoding stops at a
\* character missing from the map and returns the bytes produced so far
decode_streaming_no_raise(encoded_str, chunk_bits, char_to_value) ==
  LET st == decode_chars(encoded_str, Len(encoded_str), chunk_bits, char_to_value)
  IN [raised |-> FALSE, out_bytes |-> decode_flush(st)]

\* the result: raised is TRUE when ValueError("Invalid character") left the
\* function, and then no bytes are returned
_decode_streaming(encoded_str, chunk_bits, char_to_value) ==
  LET st == decode_chars(encoded_str, Len(encoded_str), chunk_bits, char_to_value)
  IN IF st.invalid THEN [raised |-> TRUE, out_bytes |-> <<>>]
     ELSE [raised |-> FALSE, out_bytes |-> decode_flush(st)]

(***************************************************************************)
(* The compiled codec cython_fastencode, called by encoder.py and          *)
(* handler.py: the streaming bit packer of section 4.2.                    *)
(***************************************************************************)
cy_encode(data, chunk_bits, alphabet) == _encode_streaming(data, chunk_bits, alphabet)

cy_decode(encoded, chunk_bits, reverse_map) == _decode_streaming(encoded, chunk_bits, reverse_map)

(***************************************************************************)
(* Framing.                                                                *)
(***************************************************************************)
\* seg_len.to_bytes(4, byteorder="big"); OverflowError when it does not fit
to_bytes4(n) ==
  <<(n \div 16777216) % 256, (n \div 65536) % 256, (n \div 256) % 256, n % 256>>

\* int.from_bytes(b, byteorder="big") of four bytes.  A value of 2^30 or more
\* is reported as 2^30: it is only compared with, and used to slice, byte
\* strings far shorter than that.
from_bytes4(b) ==
  IF b[1] >= 64 THEN 2^30
  ELSE ((b[1] * 256 + b[2]) * 256 + b[3]) * 256 + b[4]

\* Python's slice s[a:b] for 0 <= a
Slice(s, a, b) ==
  LET hi == IF b < Len(s) THEN b ELSE Len(s)
  IN IF a >= hi THEN <<>> ELSE SubSeq(s, a + 1, hi)

(***************************************************************************)
(* zlib.  The library is outside the repository; the model keeps the shape *)
(* of a zlib stream: the two header bytes, a body (here the length of the  *)
(* data and the data, standing for the DEFLATE blocks) and the Adler-32    *)
(* checksum of the data.  Decompression fails on a wrong header, on a      *)
(* stream that ends early and on a checksum mismatch, and ignores whatever *)
(* follows the end of the stream, as zlib.decompress does.                 *)
(***************************************************************************)
RECURSIVE adler_a(_, _)
adler_a(data, n) == IF n = 0 THEN 1 ELSE (adler_a(data, n - 1) + data[n]) % 65521

RECURSIVE adler_b(_, _)
adler_b(data, n) == IF n = 0 THEN 0 ELSE (adler_b(data, n - 1) + adler_a(data, n)) % 65521

adler32_bytes(data) ==
  LET a == adler_a(data, Len(data))
      b == adler_b(data, Len(data))
  IN <<b \div 256, b % 256, a \div 256, a % 256>>

zlib_header == <<120, 218>>

zlib_compress(data) == zlib_header \o <<Len(data)>> \o data \o adler32_bytes(data)

\* decompression that hands back what data a stream holds (as a
\* decompressobj does) in place of raising zlib.error
zlib_decompress_partial(stream) ==
  [raised |-> FALSE, data |-> Slice(stream, 3, Len(stream) - 4)]

\* raised is TRUE when zlib.error leaves the call
zlib_decompress(stream) ==
  LET failed == [raised |-> TRUE, data |-> <<>>]
  IN IF Len(stream) < 3 \/ Slice(stream, 0, 2) # zlib_header THEN failed
     ELSE LET n == stream[3]
              data == Slice(stream, 3, 3 + n)
          IN IF Len(stream) < 3 + n + 4 THEN failed
             ELSE IF Slice(stream, 3 + n, 3 + n + 4) # adler32_bytes(data) THEN failed
             ELSE [raised |-> FALSE, data |-> data]

(***************************************************************************)
(* Names: formatting and parsing.                                          *)
(***************************************************************************)
RECURSIVE decimal_digits(_)
decimal_digits(n) ==
  IF n < 10 THEN <<48 + n>> ELSE Append(decimal_digits(n \div 10), 48 + (n % 10))

RECURSIVE zero_pad(_, _)
zero_pad(s, width) == IF Len(s) >= width THEN s ELSE zero_pad(<<48>> \o s, width)

\* f"{n:0<width>d}" for n >= 0
format_d(n, width) == zero_pad(decimal_digits(n), width)

\* "part_"
part_prefix == <<112, 97, 114, 116, 95>>

\* f"part_{seg_index:05d}"
part_folder_name(seg_index) == part_prefix \o format_d(seg_index, 5)

\* f"{idx:03d}_{chunk}"
chunk_filename(idx, chunk) == format_d(idx, 3) \o <<95>> \o chunk

RECURSIVE digits_value(_, _)
digits_value(s, n) == IF n = 0 THEN 0 ELSE digits_value(s, n - 1) * 10 + (s[n] - 48)

\* int(s): ok is FALSE when ValueError is raised.  Only plain runs of ASCII
\* digits are parsed; the signs, blanks and digit-group underscores that
\* int() also accepts occur in no name of the model.
python_int(s) ==
  IF Len(s) > 0 /\ \A i \in 1..Len(s) : s[i] \in 48..57
  THEN [ok |-> TRUE, value |-> digits_value(s, Len(s))]
  ELSE [ok |-> FALSE, value |-> 0]

\* name.startswith(prefix)
startswith(name, prefix) ==
  Len(name) >= Len(prefix) /\ SubSeq(name, 1, Len(prefix)) = prefix

\* name.rsplit("_", 1): the split at the last "_" of the name
rsplit_underscore(name) ==
  IF \E i \in 1..Len(name) : name[i] = 95
  THEN LET i == CHOOSE k \in 1..Len(name) :
                  name[k] = 95 /\ \A j \in (k + 1)..Len(name) : name[j] # 95
       IN <<SubSeq(name, 1, i - 1), SubSeq(name, i + 1, Len(name))>>
  ELSE <<name>>

\* name.split("_", 1): the two parts, or the name alone when it holds no "_"
split_underscore(name) ==
  IF \E i \in 1..Len(name) : name[i] = 95
  THEN LET i == CHOOSE k \in 1..Len(name) :
                  name[k] = 95 /\ \A j \in 1..(k - 1) : name[j] # 95
       IN <<SubSeq(name, 1, i - 1), SubSeq(name, i + 1, Len(name))>>
  ELSE <<name>>

(***************************************************************************)
(* The file system: the directories and the (zero-byte) files that exist,  *)
(* each a path, a sequence of names, below the location the caller passes. *)
(***************************************************************************)
\* os.makedirs(path, exist_ok=True)
makedirs(dirs, path) == dirs \cup {SubSeq(path, 1, k) : k \in 0..Len(path)}

\* the names os.scandir(path) yields that are directories / files
scandir_dirs(dirs, path) ==
  {d[Len(d)] : d \in {e \in dirs : Len(e) = Len(path) + 1 /\ SubSeq(e, 1, Len(path)) = path}}

scandir_files(files, path) ==
  {f[Len(f)] : f \in {e \in files : Len(e) = Len(path) + 1 /\ SubSeq(e, 1, Len(path)) = path}}

(***************************************************************************)
(* Chunk splitting and reassembly.                                         *)
(***************************************************************************)
\* the chunks with a short tail left out: range(0, len - chunk_size + 1, chunk_size)
split_whole_chunks(encoded_segment, chunk_size) ==
  [k \in 1..(Len(encoded_segment) \div chunk_size) |->
     SubSeq(encoded_segment, (k - 1) * chunk_size + 1, k * chunk_size)]

\* [encoded[i:i+chunk_size] for i in range(0, len(encoded), chunk_size)]
split_chunks(encoded_segment, chunk_size) ==
  [k \in 1..((Len(encoded_segment) + chunk_size - 1) \div chunk_size) |->
     Slice(encoded_segment, (k - 1) * chunk_size, k * chunk_size)]

\* the (idx, chunk) pairs read from the file names of one folder; a name
\* without "_" or with a prefix that is no integer is passed over
chunk_entries(names) ==
  {[idx |-> python_int(split_underscore(n)[1]).value, chunk |-> split_underscore(n)[2], name |-> n] :
     n \in {m \in names : /\ Len(split_underscore(m)) = 2
                          /\ python_int(split_underscore(m)[1]).ok}}

\* the joins without the sort: the chunks in the order of the scan
RECURSIVE unsorted_joins(_)
unsorted_joins(entries) ==
  IF entries = {} THEN {<<>>}
  ELSE UNION {{e.chunk \o rest : rest \in unsorted_joins(entries \ {e})} : e \in entries}

\* "".join(chunk for idx, chunk in sorted(entries, key=idx)): list.sort is
\* stable, so entries with equal idx stay in the order the directory scan
\* produced them, which is any order.  The entries with idx in lo..hi are
\* joined half by half.
RECURSIVE tie_joins(_)
tie_joins(entries) ==
  IF entries = {} THEN {<<>>}
  ELSE UNION {{e.chunk \o rest : rest \in tie_joins(entries \ {e})} : e \in entries}

RECURSIVE joins_range(_, _, _)
joins_range(entries, lo, hi) ==
  IF entries = {} THEN {<<>>}
  ELSE IF lo = hi THEN tie_joins(entries)
  ELSE LET mid == (lo + hi) \div 2
       IN {a \o b : a \in joins_range({e \in entries : e.idx <= mid}, lo, mid),
                    b \in joins_range({e \in entries : e.idx > mid}, mid + 1, hi)}

\* the place of the ordinal idx among the ordinals written as f"{idx:03d}"
\* and compared as text: the first six digits, then the length
text_key(idx) ==
  LET text == format_d(idx, 3)
  IN digits_value(text \o <<48, 48, 48>>, 6) * 10 + Len(text)

\* the join of the chunks sorted by the text of their ordinal and not by
\* its value
text_sorted_joins(entries) ==
  LET keyed == {[e EXCEPT !.idx = text_key(e.idx)] : e \in entries}
  IN IF entries = {} THEN {<<>>}
     ELSE joins_range(keyed,
                      (CHOOSE e \in keyed : \A o \in keyed : e.idx <= o.idx).idx,
                      (CHOOSE e \in keyed : \A o \in keyed : e.idx >= o.idx).idx)

sorted_joins(entries) ==
  IF entries = {} THEN {<<>>}
  ELSE joins_range(entries,
                   (CHOOSE e \in entries : \A o \in entries : e.idx <= o.idx).idx,
                   (CHOOSE e \in entries : \A o \in entries : e.idx >= o.idx).idx)

\* sorted(keys)
RECURSIVE sorted_seq(_)
sorted_seq(S) ==
  IF S = {} THEN <<>>
  ELSE LET m == CHOOSE x \in S : \A y \in S : x <= y
       IN <<m>> \o sorted_seq(S \ {m})

\* s reversed
RECURSIVE reversed(_)
reversed(s) == IF s = <<>> THEN <<>> ELSE Append(reversed(Tail(s)), Head(s))

\* the orders in which a dict filled from a scan can hold its keys: the
\* scan yields the entries in any order, of which the ascending one, the
\* descending one and the ascending one begun at its second key are kept
insertion_orders(keys) ==
  LET up == sorted_seq(keys)
  IN {up, reversed(up), IF up = <<>> THEN up ELSE Append(Tail(up), Head(up))}

\* segments.keys(): the keys in insertion order
unsorted_keys(key_order) == key_order

\* sorted(segments.keys())
sorted_keys(key_order) == sorted_seq({key_order[k] : k \in DOMAIN key_order})

(***************************************************************************)
(* LocalStorageHandler (local_storage.py).                                 *)
(***************************************************************************)
\* the files store_segment creates in part_folder
chunk_files_of(part_folder, encoded_segment, chunk_size) ==
  LET chunks == split_chunks(encoded_segment, chunk_size)
  IN {Append(part_folder, chunk_filename(k - 1, chunks[k])) : k \in 1..Len(chunks)}

\* store_segment had it emptied the location before writing
local_store_segment_emptying(fs, base_output_dir, seg_index, encoded_segment, chunk_size) ==
  LET part_folder == Append(base_output_dir, part_folder_name(seg_index))
  IN [dirs |-> makedirs({}, part_folder),
      files |-> chunk_files_of(part_folder, encoded_segment, chunk_size)]

\* store_segment: the file system after the call
local_store_segment(fs, base_output_dir, seg_index, encoded_segment, chunk_size) ==
  LET part_folder == Append(base_output_dir, part_folder_name(seg_index))
  IN [dirs |-> makedirs(fs.dirs, part_folder),
      files |-> fs.files \cup chunk_files_of(part_folder, encoded_segment, chunk_size)]

\* the folders of base_output_dir that retrieve_segments reads, with the
\* segment index each name gives
part_folders_of(fs, main_folder) ==
  {[idx |-> python_int(SubSeq(n, 6, Len(n))).value, name |-> n] :
     n \in {m \in scandir_dirs(fs.dirs, main_folder) :
              startswith(m, part_prefix) /\ python_int(SubSeq(m, 6, Len(m))).ok}}

\* the strings a folder can be reassembled to
folder_strings(fs, main_folder, name) ==
  sorted_joins(chunk_entries(scandir_files(fs.files, Append(main_folder, name))))

\* every dict with one of the candidate strings per key
RECURSIVE dicts_of(_, _)
dicts_of(keys, candidates) ==
  IF keys = {} THEN {<<>>}
  ELSE LET k == CHOOSE x \in keys : TRUE
       IN {(k :> s) @@ rest : s \in candidates[k], rest \in dicts_of(keys \ {k}, candidates)}

\* retrieve_segments: the dicts it can return (one per order in which the
\* scans can enumerate the entries), each with its keys in insertion order;
\* raised is TRUE when base_output_dir
\* does not exist (FileNotFoundError)
local_retrieve_segments(fs, base_output_dir) ==
  IF base_output_dir \notin fs.dirs THEN {[raised |-> TRUE, segments |-> <<>>, keys |-> <<>>]}
  ELSE LET folders == part_folders_of(fs, base_output_dir)
           keys == {f.idx : f \in folders}
           candidates == [k \in keys |->
              UNION {folder_strings(fs, base_output_dir, f.name) : f \in {g \in folders : g.idx = k}}]
       IN {[raised |-> FALSE, segments |-> d, keys |-> o] :
             d \in dicts_of(keys, candidates), o \in insertion_orders(keys)}

(***************************************************************************)
(* AzureBlobStorageHandler (azure_storage.py): a flat namespace of blob    *)
(* names, each a string.                                                   *)
(***************************************************************************)
\* f"{part_prefix}/{idx:03d}_{chunk}" with part_prefix = f"{blob_prefix}/part_{seg_index:05d}"
azure_blob_name(blob_prefix, seg_index, idx, chunk) ==
  blob_prefix \o <<47>> \o part_folder_name(seg_index) \o <<47>> \o chunk_filename(idx, chunk)

\* the names store_segment uploads, f"{blob_prefix}/part_{seg_index:05d}/{idx:03d}_{chunk}"
azure_blob_names(blob_prefix, seg_index, encoded_segment, chunk_size) ==
  LET part == blob_prefix \o <<47>> \o part_folder_name(seg_index)
      chunks == split_chunks(encoded_segment, chunk_size)
  IN {part \o <<47>> \o chunk_filename(k - 1, chunks[k]) : k \in 1..Len(chunks)}

\* store_segment once every upload has completed: the container's blob names
azure_store_segment(blobs, blob_prefix, seg_index, encoded_segment, chunk_size) ==
  blobs \cup azure_blob_names(blob_prefix, seg_index, encoded_segment, chunk_size)

\* s.lstrip("/")
RECURSIVE lstrip_slash(_)
lstrip_slash(s) == IF Len(s) > 0 /\ s[1] = 47 THEN lstrip_slash(Tail(s)) ELSE s

\* s.partition("/"): what precedes the first "/" and what follows it
partition_slash(s) ==
  IF \E i \in 1..Len(s) : s[i] = 47
  THEN LET i == CHOOSE k \in 1..Len(s) : s[k] = 47 /\ \A j \in 1..(k - 1) : s[j] # 47
       IN [head |-> SubSeq(s, 1, i - 1), tail |-> SubSeq(s, i + 1, Len(s))]
  ELSE [head |-> s, tail |-> <<>>]

\* the (seg_index, file_idx, chunk_data) retrieve_segments reads from one blob
\* name; ok is FALSE when the name is passed over
azure_parse(blob_name, blob_prefix) ==
  LET skip == [ok |-> FALSE, seg_index |-> 0, idx |-> 0, chunk |-> <<>>, name |-> blob_name]
  IN IF ~startswith(blob_name, blob_prefix) THEN skip
     ELSE LET relative_name == lstrip_slash(SubSeq(blob_name, Len(blob_prefix) + 1, Len(blob_name)))
              p == partition_slash(relative_name)
              parts == split_underscore(p.tail)
          IN IF ~startswith(relative_name, part_prefix) THEN skip
             ELSE IF p.tail = <<>> THEN skip
             ELSE IF ~python_int(SubSeq(p.head, 6, Len(p.head))).ok THEN skip
             ELSE IF Len(parts) # 2 THEN skip
             ELSE IF ~python_int(parts[1]).ok THEN skip
             ELSE [ok |-> TRUE,
                   seg_index |-> python_int(SubSeq(p.head, 6, Len(p.head))).value,
                   idx |-> python_int(parts[1]).value,
                   chunk |-> parts[2],
                   name |-> blob_name]

\* retrieve_segments: the dicts it can return (one per order in which
\* list_blobs can enumerate the blobs)
azure_retrieve_segments(blobs, blob_prefix) ==
  LET parsed == {e \in {azure_parse(b, blob_prefix) : b \in blobs} : e.ok}
      keys == {e.seg_index : e \in parsed}
      candidates == [k \in keys |->
         sorted_joins({[idx |-> e.idx, chunk |-> e.chunk, name |-> e.name] :
                          e \in {x \in parsed : x.seg_index = k}})]
  IN {[raised |-> FALSE, segments |-> d, keys |-> o] :
        d \in dicts_of(keys, candidates), o \in insertion_orders(keys)}

(***************************************************************************)
(* The pipelines: InFileNameEncoder with a LocalStorageHandler             *)
(* (encoder.py) and InFileNameStorageCython (handler.py).                  *)
(***************************************************************************)
\* the loop that cuts compressed_data into segments, from offset start on.
\* It is entered with segment_size >= 1 only.
\* the segmentation loop run only while a whole segment is left
RECURSIVE split_whole_segments(_, _, _)
split_whole_segments(compressed_data, start, segment_size) ==
  IF start + segment_size <= Len(compressed_data)
  THEN <<Slice(compressed_data, start, start + segment_size)>>
         \o split_whole_segments(compressed_data, start + segment_size, segment_size)
  ELSE <<>>

RECURSIVE split_segments(_, _, _)
split_segments(compressed_data, start, segment_size) ==
  IF start < Len(compressed_data)
  THEN LET sum == start + segment_size
           end == IF sum < Len(compressed_data) THEN sum ELSE Len(compressed_data)
       IN <<Slice(compressed_data, start, end)>> \o split_segments(compressed_data, end, segment_size)
  ELSE <<>>

\* header + seg
frame(segment) == to_bytes4(Len(segment)) \o segment

\* encode_file: the file system after the loop has stored the first n segments
RECURSIVE encoder_store_segments(_, _, _, _, _)
encoder_store_segments(fs, base_output_dir, segments, n, chunk_size) ==
  IF n = 0 THEN fs
  ELSE local_store_segment(
         encoder_store_segments(fs, base_output_dir, segments, n - 1, chunk_size),
         base_output_dir, n,
         cy_encode(frame(segments[n]), encoder_chunk_bits, encoder_alphabet),
         chunk_size)

\* InFileNameEncoder.encode_file on a LocalStorageHandler(base_output_dir)
encode_file(fs, original_data, base_output_dir, segment_size, chunk_size) ==
  LET segments == split_segments(zlib_compress(original_data), 0, segment_size)
  IN encoder_store_segments(fs, base_output_dir, segments, Len(segments), chunk_size)

\* the folder "<name>_<ext>" of the input file "input.bin"
input_folder_name == <<105, 110, 112, 117, 116, 95, 98, 105, 110>>

\* encode_file_to_filenames: the file system after the first n segments
RECURSIVE handler_store_segments(_, _, _, _, _)
handler_store_segments(fs, main_folder, segments, n, chunk_size) ==
  IF n = 0 THEN fs
  ELSE LET prev == handler_store_segments(fs, main_folder, segments, n - 1, chunk_size)
           encoded_seg == cy_encode(frame(segments[n]), handler_chunk_bits, handler_alphabet)
           part_folder == Append(main_folder, part_folder_name(n))
       IN [dirs |-> makedirs(prev.dirs, part_folder),
           files |-> prev.files \cup chunk_files_of(part_folder, encoded_seg, chunk_size)]

\* InFileNameStorageCython.encode_file_to_filenames
encode_file_to_filenames(fs, original_data, base_output_dir, segment_size, chunk_size) ==
  LET main_folder == Append(base_output_dir, input_folder_name)
      segments == split_segments(zlib_compress(original_data), 0, segment_size)
  IN handler_store_segments([fs EXCEPT !.dirs = makedirs(fs.dirs, main_folder)],
                            main_folder, segments, Len(segments), chunk_size)

\* the body of the decode loop for one segment: st is the loop's state, item
\* the segment (idx, its reassembled string, whether its folder held no chunk
\* file at all, which only decode_filenames_to_file looks at)
decode_segment(st, item, chunk_bits, reverse_map) ==
  IF st.raised THEN st
  ELSE IF item.no_files THEN st
  ELSE LET dec == cy_decode(item.str, chunk_bits, reverse_map)
       IN IF dec.raised THEN [st EXCEPT !.raised = TRUE]
          ELSE IF Len(dec.out_bytes) < 4
          THEN [st EXCEPT !.too_short = st.too_short \cup {item.idx}]
          ELSE LET expected_seg_len == from_bytes4(dec.out_bytes)
                   sd == Slice(dec.out_bytes, 4, 4 + expected_seg_len)
               IN [st EXCEPT
                     !.accumulated_compressed = st.accumulated_compressed \o sd,
                     !.mismatched = IF Len(sd) # expected_seg_len
                                    THEN st.mismatched \cup {item.idx}
                                    ELSE st.mismatched]

\* the decode loop over the first n items
RECURSIVE decode_segments(_, _, _, _)
decode_segments(items, n, chunk_bits, reverse_map) ==
  IF n = 0
  THEN [raised |-> FALSE, accumulated_compressed |-> <<>>, too_short |-> {}, mismatched |-> {}]
  ELSE decode_segment(decode_segments(items, n - 1, chunk_bits, reverse_map),
                      items[n], chunk_bits, reverse_map)

\* what a decode call leaves behind: the exception that left it ("none" when
\* it returned), the step it reached, what the loop accumulated, and the
\* output file it wrote
decode_outcome(error, stage, items, st, text) ==
  [error |-> error, stage |-> stage, items |-> items,
   accumulated_compressed |-> st.accumulated_compressed,
   too_short |-> st.too_short, mismatched |-> st.mismatched,
   written |-> stage = "write", data |-> text]

no_loop == [raised |-> FALSE, accumulated_compressed |-> <<>>, too_short |-> {}, mismatched |-> {}]

\* the end of a decode function that opens the output file first and
\* decompresses into it
write_and_decompress(items, st) ==
  LET z == zlib_decompress(st.accumulated_compressed)
  IN IF z.raised
     THEN [decode_outcome("zlib.error", "decompress", items, st, <<>>) EXCEPT !.written = TRUE]
     ELSE decode_outcome("none", "write", items, st, z.data)

\* the end of both decode functions: decompress and write
decompress_and_write(items, st) ==
  LET z == zlib_decompress(st.accumulated_compressed)
  IN IF z.raised THEN decode_outcome("zlib.error", "decompress", items, st, <<>>)
     ELSE decode_outcome("none", "write", items, st, z.data)

\* decode_file without its test for an empty mapping
decode_file_no_empty_test(retrieved) ==
  IF retrieved.raised THEN decode_outcome("FileNotFoundError", "retrieve", <<>>, no_loop, <<>>)
  ELSE LET keys == sorted_keys(retrieved.keys)
           items == [k \in 1..Len(keys) |->
                       [idx |-> keys[k], str |-> retrieved.segments[keys[k]], no_files |-> FALSE]]
           st == decode_segments(items, Len(items), encoder_chunk_bits, encoder_reverse_map)
       IN IF st.raised THEN decode_outcome("InvalidSymbol", "loop", items, st, <<>>)
          ELSE decompress_and_write(items, st)

\* InFileNameEncoder.decode_file, given what retrieve_segments returned
decode_file(retrieved) ==
  IF retrieved.raised THEN decode_outcome("FileNotFoundError", "retrieve", <<>>, no_loop, <<>>)
  ELSE IF DOMAIN retrieved.segments = {}
  THEN decode_outcome("NoSegmentsFound", "retrieve", <<>>, no_loop, <<>>)
  ELSE LET keys == sorted_keys(retrieved.keys)
           items == [k \in 1..Len(keys) |->
                       [idx |-> keys[k], str |-> retrieved.segments[keys[k]], no_files |-> FALSE]]
           st == decode_segments(items, Len(items), encoder_chunk_bits, encoder_reverse_map)
       IN IF st.raised THEN decode_outcome("InvalidSymbol", "loop", items, st, <<>>)
          ELSE decompress_and_write(items, st)

\* decode_filenames_to_file: the lists of part folders it can work through,
\* sorted by index (folders with equal index in scan order), each with a
\* string its chunk files can be reassembled to
RECURSIVE handler_scans(_, _, _)
handler_scans(fs, main_folder, folders) ==
  IF folders = {} THEN {<<>>}
  ELSE LET least == {f \in folders : \A o \in folders : f.idx <= o.idx}
       IN UNION {{<<[idx |-> f.idx, str |-> s,
                     no_files |-> chunk_entries(scandir_files(fs.files, Append(main_folder, f.name))) = {}]>>
                    \o rest :
                     s \in folder_strings(fs, main_folder, f.name),
                     rest \in handler_scans(fs, main_folder, folders \ {f})} : f \in least}

\* InFileNameStorageCython.decode_filenames_to_file: its possible outcomes
decode_filenames_to_file(fs, main_folder) ==
  IF main_folder \notin fs.dirs
  THEN {decode_outcome("FileNotFoundError", "retrieve", <<>>, no_loop, <<>>)}
  ELSE IF part_folders_of(fs, main_folder) = {}
  THEN {decode_outcome("NoSegmentsFound", "retrieve", <<>>, no_loop, <<>>)}
  ELSE {LET st == decode_segments(items, Len(items), handler_chunk_bits, handler_reverse_map)
        IN IF st.raised THEN decode_outcome("InvalidSymbol", "loop", items, st, <<>>)
           ELSE decompress_and_write(items, st) :
          items \in handler_scans(fs, main_folder, part_folders_of(fs, main_folder))}

(***************************************************************************)
(* State.                                                                  *)
(***************************************************************************)
VARIABLES
  codec_pc,         \* SpecCodec: "new", "encoded", "decoded", "given", "decoded given" ("off" elsewhere)
  codec_chunk_bits, \* SpecCodec: the symbol width in use
  framed,           \* SpecCodec: whether the segment gets its length header
  seg,              \* SpecCodec: the segment's bytes
  seg_with_header,  \* SpecCodec: the bytes handed to the bit packer
  encoded,          \* SpecCodec: the encoded string
  dec_data,         \* SpecCodec: the result of the bit-pack decode
  seg_data,         \* SpecCodec: the segment recovered from dec_data
  pc,               \* Spec: "start", "encoded", "done" ("off" elsewhere)
  variant,          \* Spec: "encoder" (encoder.py) or "handler" (handler.py)
  original_data,    \* Spec: the content of the input file
  segment_size,     \* Spec: the constructor's segment_size
  chunk_size,       \* Spec: the constructor's chunk_size
  fs,               \* Spec: the directories and files below base_output_dir
  tampered,         \* Spec: what was done to the stored corpus, "none" at first
  main_folder,      \* Spec: the folder the decode call was pointed at
  outcome,          \* Spec: what the decode call left behind
  codec_fields,     \* Spec: alphabet, base_size, chunk_bits and reverse_map of the instance
  decoder_config,   \* Spec: segment_size and chunk_size of the instance that decodes
  port_pc,          \* SpecPort: "storing", "retrieved" ("off" elsewhere)
  backend,          \* SpecPort: "local" or "azure"
  stored,           \* SpecPort: the encoded string of each store_segment call so far
  stored_chunk_size, \* SpecPort: the chunk_size of each store_segment call so far
  port_fs,          \* SpecPort: the directories and files of the local back-end
  blobs,            \* SpecPort: the blob names of the container
  segments_map,     \* SpecPort: what retrieve_segments returned
  overwrites,       \* SpecOverwrite: the store_segment calls made on an index stored before
  alpha_pc,         \* SpecAlphabet: "new", "built" ("off" elsewhere)
  builder,          \* SpecAlphabet: the class constructed, "encoder" or "handler"
  code_point,       \* SpecAlphabet: the code point looked at
  in_alphabet,      \* SpecAlphabet: whether the instance's alphabet holds it
  symbol_value,     \* SpecAlphabet: reverse_map.get(chr(code_point)), -1 for None
  instance_chunk_bits, \* SpecAlphabet: the instance's chunk_bits
  frame_pc,         \* SpecFrame: "new", "loop", "returned", "raised" ("off" elsewhere)
  comp_len,         \* SpecFrame: len(compressed_data)
  frame_segment_size, \* SpecFrame: the constructor's segment_size
  segment_lens,     \* SpecFrame: the lengths of the segments list
  store_calls,      \* SpecFrame: the store_segment calls made so far
  frame_error,      \* SpecFrame: the exception that left encode_file, "none" if none
  upload_pc,        \* SpecUpload: where store_segment's thread is ("off" elsewhere)
  upload_seg_index, \* SpecUpload: store_segment's seg_index
  encoded_segment,  \* SpecUpload: store_segment's encoded_segment
  upload_chunk_size, \* SpecUpload: store_segment's chunk_size
  max_workers,      \* SpecUpload: store_segment's max_workers
  futures,          \* SpecUpload: the state of each submitted upload
  yielded,          \* SpecUpload: the futures as_completed has handed out
  completion,       \* SpecUpload: the uploads in the order they completed
  container,        \* SpecUpload: the blob names of the container
  upload_segments,  \* SpecUpload: what retrieve_segments returned afterwards
  loop_pc,          \* SpecLoop: "while", "done" ("off" elsewhere)
  loop_comp_len,    \* SpecLoop: comp_len
  loop_segment_size, \* SpecLoop: self.segment_size
  loop_start,       \* SpecLoop: start
  loop_segments     \* SpecLoop: len(segments)

codec_vars == <<codec_pc, codec_chunk_bits, framed, seg, seg_with_header, encoded, dec_data, seg_data>>

pipeline_vars == <<pc, variant, original_data, segment_size, chunk_size, fs, tampered, main_folder, outcome,
                   codec_fields, decoder_config>>

port_vars == <<port_pc, backend, stored, stored_chunk_size, port_fs, blobs, segments_map, overwrites>>

alphabet_vars == <<alpha_pc, builder, code_point, in_alphabet, symbol_value, instance_chunk_bits>>

frame_vars == <<frame_pc, comp_len, frame_segment_size, segment_lens, store_calls, frame_error>>

upload_vars == <<upload_pc, upload_seg_index, encoded_segment, upload_chunk_size, max_workers,
                 futures, yielded, completion, container, upload_segments>>

loop_vars == <<loop_pc, loop_comp_len, loop_segment_size, loop_start, loop_segments>>

aux_vars == <<alphabet_vars, frame_vars, upload_vars, loop_vars>>

vars == <<codec_vars, pipeline_vars, port_vars, aux_vars>>

no_outcome == decode_outcome("none", "not run", <<>>, no_loop, <<>>)

\* the codec fields that __init__ sets: the alphabet by the module that
\* built it, and the reverse map by its limit, its keys being the first
\* limit characters of the alphabet
init_codec_fields(alphabet_module) ==
  LET alphabet == IF alphabet_module = "handler.py" THEN handler_alphabet ELSE encoder_alphabet
      chunk_bits == IF alphabet_module = "handler.py" THEN handler_chunk_bits ELSE encoder_chunk_bits
  IN [alphabet |-> alphabet_module, base_size |-> Len(alphabet),
      chunk_bits |-> chunk_bits, limit |-> 2^chunk_bits]

no_codec_fields == [alphabet |-> "none", base_size |-> 0, chunk_bits |-> 0, limit |-> 0]

\* the constructor's segment_size and chunk_size
config(ss, cs) == [segment_size |-> ss, chunk_size |-> cs]

\* the codec fields had the call set chunk_bits from the bytes it handles
codec_fields_recomputed(self, data) ==
  [self EXCEPT !.chunk_bits = IF Len(data) = 0 THEN self.chunk_bits ELSE 8,
               !.limit = IF Len(data) = 0 THEN self.limit ELSE 256]

\* the codec fields of self when an encode or decode call on data returns
\* or raises: no statement of these functions assigns to them
codec_fields_after_call(self, data) == self

CodecOff ==
  /\ codec_pc = "off"
  /\ codec_chunk_bits = 0
  /\ framed = FALSE
  /\ seg = <<>>
  /\ seg_with_header = <<>>
  /\ encoded = <<>>
  /\ dec_data = [raised |-> FALSE, out_bytes |-> <<>>]
  /\ seg_data = <<>>

PipelineOff ==
  /\ pc = "off"
  /\ variant = "none"
  /\ original_data = <<>>
  /\ segment_size = 0
  /\ chunk_size = 0
  /\ fs = [dirs |-> {}, files |-> {}]
  /\ tampered = "none"
  /\ main_folder = <<>>
  /\ outcome = no_outcome
  /\ codec_fields = no_codec_fields
  /\ decoder_config = config(0, 0)

PortOff ==
  /\ port_pc = "off"
  /\ backend = "none"
  /\ stored = <<>>
  /\ stored_chunk_size = <<>>
  /\ port_fs = [dirs |-> {}, files |-> {}]
  /\ blobs = {}
  /\ segments_map = <<>>
  /\ overwrites = 0

AlphabetOff ==
  /\ alpha_pc = "off"
  /\ builder = "none"
  /\ code_point = 0
  /\ in_alphabet = FALSE
  /\ symbol_value = -1
  /\ instance_chunk_bits = 0

\* a length too long for a machine word of the model: hi * 2^16 + lo
big(hi, lo) == [hi |-> hi, lo |-> lo]

FrameOff ==
  /\ frame_pc = "off"
  /\ comp_len = big(0, 0)
  /\ frame_segment_size = big(0, 0)
  /\ segment_lens = <<>>
  /\ store_calls = 0
  /\ frame_error = "none"

UploadOff ==
  /\ upload_pc = "off"
  /\ upload_seg_index = 0
  /\ encoded_segment = <<>>
  /\ upload_chunk_size = 0
  /\ max_workers = 0
  /\ futures = <<>>
  /\ yielded = {}
  /\ completion = <<>>
  /\ container = {}
  /\ upload_segments = <<>>

LoopOff ==
  /\ loop_pc = "off"
  /\ loop_comp_len = 0
  /\ loop_segment_size = 0
  /\ loop_start = 0
  /\ loop_segments = 0

AuxOff == AlphabetOff /\ FrameOff /\ UploadOff /\ LoopOff

(***************************************************************************)
(* SpecCodec: one segment through frame, bit-pack encode, bit-pack decode  *)
(* and unframe, as the loops of encode_file and decode_file do it          *)
(* (framed), and through encode, decode and trim alone, as                 *)
(* InFileNameStorageCython.test_encode_decode does it (not framed).        *)
(***************************************************************************)
codec_alphabet == handler_alphabet

codec_widths == CodecWidths \cup {handler_chunk_bits}

codec_reverse_map(chunk_bits) ==
  IF chunk_bits = handler_chunk_bits THEN handler_reverse_map
  ELSE init_reverse_map(codec_alphabet, chunk_bits)

\* decode_file's unframe of one segment: dec_data[4:4+expected_seg_len], and
\* nothing when dec_data is shorter than the header
unframe(out_bytes) ==
  IF Len(out_bytes) < 4 THEN <<>>
  ELSE Slice(out_bytes, 4, 4 + from_bytes4(out_bytes))

\* longest string handed to the decoder as it stands
MaxGivenLen == 3

\* characters of the decode subset for the width chunk_bits: its first two
\* and its last
given_chars(chunk_bits) == {codec_alphabet[1], codec_alphabet[2], codec_alphabet[2^chunk_bits]}

\* the codec starts from a segment to encode ("new"), or from a string of
\* valid characters found in storage that it is to decode ("given")
CodecInit ==
  /\ PipelineOff
  /\ PortOff
  /\ AuxOff
  /\ codec_chunk_bits \in codec_widths
  /\ \/ /\ codec_pc = "new"
        /\ framed \in BOOLEAN
        /\ seg \in SeqsUpTo(ByteSamples, MaxSegLen)
        /\ seg_with_header = IF framed THEN frame(seg) ELSE seg
        /\ encoded = <<>>
     \/ /\ codec_pc = "given"
        /\ framed = FALSE
        /\ seg = <<>>
        /\ seg_with_header = <<>>
        /\ encoded \in SeqsUpTo(given_chars(codec_chunk_bits), MaxGivenLen)
  /\ dec_data = [raised |-> FALSE, out_bytes |-> <<>>]
  /\ seg_data = <<>>

CodecEncode ==
  /\ codec_pc = "new"
  /\ encoded' = _encode_streaming(seg_with_header, codec_chunk_bits, codec_alphabet)
  /\ codec_pc' = "encoded"
  /\ UNCHANGED <<codec_chunk_bits, framed, seg, seg_with_header, dec_data, seg_data>>
  /\ UNCHANGED <<pipeline_vars, port_vars, aux_vars>>

CodecDecode ==
  /\ codec_pc = "encoded"
  /\ LET d == _decode_streaming(encoded, codec_chunk_bits, codec_reverse_map(codec_chunk_bits))
     IN /\ dec_data' = d
        /\ seg_data' = IF d.raised THEN <<>>
                       ELSE IF framed THEN unframe(d.out_bytes)
                       ELSE Slice(d.out_bytes, 0, Len(seg))
  /\ codec_pc' = "decoded"
  /\ UNCHANGED <<codec_chunk_bits, framed, seg, seg_with_header, encoded>>
  /\ UNCHANGED <<pipeline_vars, port_vars, aux_vars>>

\* the decode of a string that storage handed over
CodecDecodeGiven ==
  /\ codec_pc = "given"
  /\ dec_data' = _decode_streaming(encoded, codec_chunk_bits, codec_reverse_map(codec_chunk_bits))
  /\ codec_pc' = "decoded given"
  /\ UNCHANGED <<codec_chunk_bits, framed, seg, seg_with_header, encoded, seg_data>>
  /\ UNCHANGED <<pipeline_vars, port_vars, aux_vars>>

CodecNext == CodecEncode \/ CodecDecode \/ CodecDecodeGiven

SpecCodec == CodecInit /\ [][CodecNext]_vars

(***************************************************************************)
(* Spec: a file is encoded into an empty location, the stored corpus is    *)
(* possibly damaged once, and the corpus is decoded.                       *)
(***************************************************************************)
\* longest input file
MaxInputLen == 2

\* largest segment_size; the whole compressed input fits in it
MaxSegmentSize == 16

\* largest chunk_size; every encoded segment fits in it
MaxChunkSize == 9

InputBytes == {0, 255}

SegmentSizes == {1, 4, MaxSegmentSize}

ChunkSizes == {1, 2, MaxChunkSize}

\* base_output_dir, the location itself
base_output_dir == <<>>

Init ==
  /\ CodecOff
  /\ PortOff
  /\ AuxOff
  /\ pc = "start"
  /\ variant \in {"encoder", "handler"}
  /\ original_data \in SeqsUpTo(InputBytes, MaxInputLen)
  /\ segment_size \in SegmentSizes
  /\ chunk_size \in ChunkSizes
  /\ fs = [dirs |-> {}, files |-> {}]
  /\ tampered = "none"
  /\ main_folder = <<>>
  /\ outcome = no_outcome
  /\ codec_fields = init_codec_fields(IF variant = "handler" THEN "handler.py" ELSE "utils.py")
  /\ decoder_config = config(0, 0)

\* InFileNameEncoder(segment_size, chunk_size).encode_file(input_file, LocalStorageHandler(base_output_dir))
EncoderEncodeFile ==
  /\ pc = "start" /\ variant = "encoder"
  /\ fs' = encode_file(fs, original_data, base_output_dir, segment_size, chunk_size)
  /\ pc' = "encoded"
  /\ codec_fields' = codec_fields_after_call(codec_fields, original_data)
  /\ UNCHANGED <<variant, original_data, segment_size, chunk_size, tampered, main_folder, outcome, decoder_config>>
  /\ UNCHANGED <<codec_vars, port_vars, aux_vars>>

\* InFileNameStorageCython(segment_size, chunk_size).encode_file_to_filenames(input_file, base_output_dir)
HandlerEncodeFile ==
  /\ pc = "start" /\ variant = "handler"
  /\ fs' = encode_file_to_filenames(fs, original_data, base_output_dir, segment_size, chunk_size)
  /\ pc' = "encoded"
  /\ codec_fields' = codec_fields_after_call(codec_fields, original_data)
  /\ UNCHANGED <<variant, original_data, segment_size, chunk_size, tampered, main_folder, outcome, decoder_config>>
  /\ UNCHANGED <<codec_vars, port_vars, aux_vars>>

\* the folder that holds the part folders
corpus_folder == IF variant = "handler" THEN Append(base_output_dir, input_folder_name) ELSE base_output_dir

\* characters outside the decode subset: the first alphabet entry past the
\* subset, and the space, which is in no alphabet
invalid_chars ==
  IF variant = "handler" THEN {handler_alphabet[2^handler_chunk_bits + 1], 32}
  ELSE {encoder_alphabet[2^encoder_chunk_bits + 1], 32}

\* one stored chunk file is deleted
DeleteChunk ==
  /\ pc = "encoded" /\ tampered = "none"
  /\ \E f \in fs.files : fs' = [fs EXCEPT !.files = fs.files \ {f}]
  /\ tampered' = "chunk deleted"
  /\ UNCHANGED <<pc, variant, original_data, segment_size, chunk_size, main_folder, outcome>>
  /\ UNCHANGED <<codec_fields, decoder_config>>
  /\ UNCHANGED <<codec_vars, port_vars, aux_vars>>

\* one part folder is deleted with everything in it (shutil.rmtree)
DeleteSegment ==
  /\ pc = "encoded" /\ tampered = "none"
  /\ \E f \in part_folders_of(fs, corpus_folder) :
       LET path == Append(corpus_folder, f.name)
       IN fs' = [dirs |-> fs.dirs \ {path},
                 files |-> {e \in fs.files : SubSeq(e, 1, Len(e) - 1) # path}]
  /\ tampered' = "segment deleted"
  /\ UNCHANGED <<pc, variant, original_data, segment_size, chunk_size, main_folder, outcome>>
  /\ UNCHANGED <<codec_fields, decoder_config>>
  /\ UNCHANGED <<codec_vars, port_vars, aux_vars>>

\* the text of one stored chunk is replaced by a character outside the
\* decode subset (its file is renamed)
ReplaceChunk ==
  /\ pc = "encoded" /\ tampered = "none"
  /\ \E f \in fs.files, ch \in invalid_chars :
       LET renamed == Append(SubSeq(f, 1, Len(f) - 1),
                             split_underscore(f[Len(f)])[1] \o <<95, ch>>)
       IN fs' = [fs EXCEPT !.files = (fs.files \ {f}) \cup {renamed}]
  /\ tampered' = "chunk replaced"
  /\ UNCHANGED <<pc, variant, original_data, segment_size, chunk_size, main_folder, outcome>>
  /\ UNCHANGED <<codec_fields, decoder_config>>
  /\ UNCHANGED <<codec_vars, port_vars, aux_vars>>

\* a second object with the ordinal of a stored chunk appears in its folder
\* (the ordinal written with four digits, the same text)
DuplicateChunk ==
  /\ pc = "encoded" /\ tampered = "none"
  /\ \E f \in fs.files :
       LET parts == split_underscore(f[Len(f)])
           copy == Append(SubSeq(f, 1, Len(f) - 1),
                          format_d(python_int(parts[1]).value, 4) \o <<95>> \o parts[2])
       IN fs' = [fs EXCEPT !.files = fs.files \cup {copy}]
  /\ tampered' = "chunk duplicated"
  /\ UNCHANGED <<pc, variant, original_data, segment_size, chunk_size, main_folder, outcome>>
  /\ UNCHANGED <<codec_fields, decoder_config>>
  /\ UNCHANGED <<codec_vars, port_vars, aux_vars>>

\* the constructor's default segment_size and chunk_size
default_segment_size == 100000

default_chunk_size == 240

\* the instance that decodes is the one that encoded, or a new one made
\* with the defaults
DecoderConfigs == {config(segment_size, chunk_size), config(default_segment_size, default_chunk_size)}

\* decode_file had it refused a payload too small for segments of its own
\* segment_size, the last one apart
decode_file_own_segment_size(self_config, retrieved) ==
  LET o == decode_file(retrieved)
  IN IF Len(o.accumulated_compressed) < self_config.segment_size * (Len(o.items) - 1)
     THEN [o EXCEPT !.error = "ValueError", !.stage = "loop", !.written = FALSE, !.data = <<>>]
     ELSE o

\* decode_file of an instance made with self_config: the function reads
\* neither self.segment_size nor self.chunk_size
instance_decode_file(self_config, retrieved) == decode_file(retrieved)

\* decode_filenames_to_file of an instance made with self_config, likewise
instance_decode_filenames_to_file(self_config, files, folder) ==
  decode_filenames_to_file(files, folder)

\* InFileNameEncoder().decode_file(LocalStorageHandler(base_output_dir), output_file)
EncoderDecodeFile ==
  /\ pc = "encoded" /\ variant = "encoder"
  /\ decoder_config' \in DecoderConfigs
  /\ \E retrieved \in local_retrieve_segments(fs, base_output_dir) :
       outcome' = instance_decode_file(decoder_config', retrieved)
  /\ main_folder' = base_output_dir
  /\ pc' = "done"
  /\ codec_fields' = codec_fields_after_call(codec_fields, outcome'.accumulated_compressed)
  /\ UNCHANGED <<variant, original_data, segment_size, chunk_size, fs, tampered>>
  /\ UNCHANGED <<codec_vars, port_vars, aux_vars>>

\* InFileNameStorageCython().decode_filenames_to_file(folder, output_file),
\* pointed at the encode call's base_output_dir or at the folder the encode
\* call made in it
HandlerDecodeFile ==
  /\ pc = "encoded" /\ variant = "handler"
  /\ \E folder \in {base_output_dir, Append(base_output_dir, input_folder_name)} :
       /\ main_folder' = folder
       /\ decoder_config' \in DecoderConfigs
       /\ outcome' \in instance_decode_filenames_to_file(decoder_config', fs, folder)
  /\ pc' = "done"
  /\ codec_fields' = codec_fields_after_call(codec_fields, outcome'.accumulated_compressed)
  /\ UNCHANGED <<variant, original_data, segment_size, chunk_size, fs, tampered>>
  /\ UNCHANGED <<codec_vars, port_vars, aux_vars>>

Next ==
  \/ EncoderEncodeFile
  \/ HandlerEncodeFile
  \/ DeleteChunk
  \/ DeleteSegment
  \/ ReplaceChunk
  \/ DuplicateChunk
  \/ EncoderDecodeFile
  \/ HandlerDecodeFile

Spec == Init /\ [][Next]_vars

(***************************************************************************)
(* SpecPort: store_segment calls with pairwise distinct indices on an      *)
(* initially empty back-end, then retrieve_segments.                       *)
(***************************************************************************)
\* the segment indices stored
PortIndices == {1, 2}

\* longest encoded string stored
MaxPortLen == 3

\* largest chunk_size
MaxPortChunkSize == 2

\* characters of the stored strings: "0" and "_" are alphabet entries
PortChars == {48, 95}

\* the caller's blob prefix, "p"
blob_prefix == <<112>>

PortInit ==
  /\ CodecOff
  /\ PipelineOff
  /\ AuxOff
  /\ port_pc = "storing"
  /\ backend \in {"local", "azure"}
  /\ stored = <<>>
  /\ stored_chunk_size = <<>>
  /\ port_fs = [dirs |-> {}, files |-> {}]
  /\ blobs = {}
  /\ segments_map = <<>>
  /\ overwrites = 0

\* LocalStorageHandler(base_output_dir).store_segment(i, s, cs)
LocalStoreSegment ==
  /\ port_pc = "storing" /\ backend = "local"
  /\ \E i \in PortIndices \ DOMAIN stored,
        s \in SeqsUpTo(PortChars, MaxPortLen),
        cs \in 1..MaxPortChunkSize :
       /\ port_fs' = local_store_segment(port_fs, base_output_dir, i, s, cs)
       /\ stored' = (i :> s) @@ stored
       /\ stored_chunk_size' = (i :> cs) @@ stored_chunk_size
  /\ UNCHANGED <<port_pc, backend, blobs, segments_map, overwrites>>
  /\ UNCHANGED <<codec_vars, pipeline_vars, aux_vars>>

\* AzureBlobStorageHandler(container_client, blob_prefix).store_segment(i, s, cs)
AzureStoreSegment ==
  /\ port_pc = "storing" /\ backend = "azure"
  /\ \E i \in PortIndices \ DOMAIN stored,
        s \in SeqsUpTo(PortChars, MaxPortLen),
        cs \in 1..MaxPortChunkSize :
       /\ blobs' = azure_store_segment(blobs, blob_prefix, i, s, cs)
       /\ stored' = (i :> s) @@ stored
       /\ stored_chunk_size' = (i :> cs) @@ stored_chunk_size
  /\ UNCHANGED <<port_pc, backend, port_fs, segments_map, overwrites>>
  /\ UNCHANGED <<codec_vars, pipeline_vars, aux_vars>>

\* LocalStorageHandler.retrieve_segments(), once something was stored
LocalRetrieveSegments ==
  /\ port_pc = "storing" /\ backend = "local" /\ DOMAIN stored # {}
  /\ \E r \in local_retrieve_segments(port_fs, base_output_dir) : segments_map' = r.segments
  /\ port_pc' = "retrieved"
  /\ UNCHANGED <<backend, stored, stored_chunk_size, port_fs, blobs, overwrites>>
  /\ UNCHANGED <<codec_vars, pipeline_vars, aux_vars>>

\* AzureBlobStorageHandler.retrieve_segments(), once something was stored
AzureRetrieveSegments ==
  /\ port_pc = "storing" /\ backend = "azure" /\ DOMAIN stored # {}
  /\ \E r \in azure_retrieve_segments(blobs, blob_prefix) : segments_map' = r.segments
  /\ port_pc' = "retrieved"
  /\ UNCHANGED <<backend, stored, stored_chunk_size, port_fs, blobs, overwrites>>
  /\ UNCHANGED <<codec_vars, pipeline_vars, aux_vars>>

PortNext ==
  \/ LocalStoreSegment
  \/ AzureStoreSegment
  \/ LocalRetrieveSegments
  \/ AzureRetrieveSegments

SpecPort == PortInit /\ [][PortNext]_vars

(***************************************************************************)
(* SpecWide: as SpecPort, with segment indices of five and of six digits,  *)
(* and with a first segment of more than a thousand chunks, whose last     *)
(* ordinal has four digits.                                                *)
(***************************************************************************)
WideIndices == {99999, 100000}

\* the number of chunks of the long segment
MaxChunks == 1001

MaxWideLen == 2

\* a string of n characters, the last one unlike the others
long_segment(n) == [k \in 1..n |-> IF k = n THEN 95 ELSE 48]

\* the storage after store_segment(i, s, cs) on the back-end in use
wide_store(i, s, cs) ==
  /\ port_fs' = IF backend = "local" THEN local_store_segment(port_fs, base_output_dir, i, s, cs)
                ELSE port_fs
  /\ blobs' = IF backend = "azure" THEN azure_store_segment(blobs, blob_prefix, i, s, cs)
              ELSE blobs
  /\ stored' = (i :> s) @@ stored
  /\ stored_chunk_size' = (i :> cs) @@ stored_chunk_size

\* store_segment(i, s, 1) with s of MaxChunks characters, on empty storage
WideStoreLong ==
  /\ port_pc = "storing" /\ DOMAIN stored = {}
  /\ \E i \in WideIndices : wide_store(i, long_segment(MaxChunks), 1)
  /\ UNCHANGED <<port_pc, backend, segments_map, overwrites>>
  /\ UNCHANGED <<codec_vars, pipeline_vars, aux_vars>>

\* store_segment(i, s, cs) with a short s
WideStoreShort ==
  /\ port_pc = "storing"
  /\ \E i \in WideIndices \ DOMAIN stored,
        s \in SeqsUpTo(PortChars, MaxWideLen),
        cs \in 1..MaxPortChunkSize : wide_store(i, s, cs)
  /\ UNCHANGED <<port_pc, backend, segments_map, overwrites>>
  /\ UNCHANGED <<codec_vars, pipeline_vars, aux_vars>>

\* retrieve_segments(), once something was stored
WideRetrieveSegments ==
  /\ port_pc = "storing" /\ DOMAIN stored # {}
  /\ \E r \in IF backend = "local" THEN local_retrieve_segments(port_fs, base_output_dir)
              ELSE azure_retrieve_segments(blobs, blob_prefix) :
       segments_map' = r.segments
  /\ port_pc' = "retrieved"
  /\ UNCHANGED <<backend, stored, stored_chunk_size, port_fs, blobs, overwrites>>
  /\ UNCHANGED <<codec_vars, pipeline_vars, aux_vars>>

WideNext ==
  \/ WideStoreLong
  \/ WideStoreShort
  \/ WideRetrieveSegments

SpecWide == PortInit /\ [][WideNext]_vars

(***************************************************************************)
(* SpecOverwrite: as SpecPort, with store_segment also called on an index  *)
(* that was stored before.                                                 *)
(***************************************************************************)
MaxOverwrites == 1

\* LocalStorageHandler.store_segment(i, s, cs) for an i stored before
LocalStoreAgain ==
  /\ port_pc = "storing" /\ backend = "local" /\ overwrites < MaxOverwrites
  /\ \E i \in DOMAIN stored,
        s \in SeqsUpTo(PortChars, MaxPortLen),
        cs \in 1..MaxPortChunkSize :
       /\ port_fs' = local_store_segment(port_fs, base_output_dir, i, s, cs)
       /\ stored' = [stored EXCEPT ![i] = s]
       /\ stored_chunk_size' = [stored_chunk_size EXCEPT ![i] = cs]
  /\ overwrites' = overwrites + 1
  /\ UNCHANGED <<port_pc, backend, blobs, segments_map>>
  /\ UNCHANGED <<codec_vars, pipeline_vars, aux_vars>>

\* AzureBlobStorageHandler.store_segment(i, s, cs) for an i stored before
AzureStoreAgain ==
  /\ port_pc = "storing" /\ backend = "azure" /\ overwrites < MaxOverwrites
  /\ \E i \in DOMAIN stored,
        s \in SeqsUpTo(PortChars, MaxPortLen),
        cs \in 1..MaxPortChunkSize :
       /\ blobs' = azure_store_segment(blobs, blob_prefix, i, s, cs)
       /\ stored' = [stored EXCEPT ![i] = s]
       /\ stored_chunk_size' = [stored_chunk_size EXCEPT ![i] = cs]
  /\ overwrites' = overwrites + 1
  /\ UNCHANGED <<port_pc, backend, port_fs, segments_map>>
  /\ UNCHANGED <<codec_vars, pipeline_vars, aux_vars>>

OverwriteNext ==
  \/ PortNext
  \/ LocalStoreAgain
  \/ AzureStoreAgain

SpecOverwrite == PortInit /\ [][OverwriteNext]_vars

(***************************************************************************)
(* SpecAlphabet: one instance of InFileNameEncoder or of                   *)
(* InFileNameStorageCython is constructed, and one code point is looked up *)
(* in its alphabet and its reverse map.                                    *)
(***************************************************************************)
\* reverse_map.get(ch), -1 standing for None
map_get(reverse_map, ch) == IF ch \in DOMAIN reverse_map THEN reverse_map[ch] ELSE -1

AlphabetInit ==
  /\ CodecOff
  /\ PipelineOff
  /\ PortOff
  /\ FrameOff
  /\ UploadOff
  /\ LoopOff
  /\ alpha_pc = "new"
  /\ builder = "none"
  /\ code_point \in 0..65535
  /\ in_alphabet = FALSE
  /\ symbol_value = -1
  /\ instance_chunk_bits = 0

\* InFileNameEncoder(): the alphabet of utils.py
EncoderConstruct ==
  /\ alpha_pc = "new"
  /\ builder' = "encoder"
  /\ in_alphabet' = utils_is_valid_bmp_char(code_point)
  /\ symbol_value' = map_get(encoder_reverse_map, code_point)
  /\ instance_chunk_bits' = encoder_chunk_bits
  /\ alpha_pc' = "built"
  /\ UNCHANGED code_point
  /\ UNCHANGED <<codec_vars, pipeline_vars, port_vars, frame_vars, upload_vars, loop_vars>>

\* InFileNameStorageCython(): the alphabet of handler.py
HandlerConstruct ==
  /\ alpha_pc = "new"
  /\ builder' = "handler"
  /\ in_alphabet' = handler_is_valid_bmp_char(code_point)
  /\ symbol_value' = map_get(handler_reverse_map, code_point)
  /\ instance_chunk_bits' = handler_chunk_bits
  /\ alpha_pc' = "built"
  /\ UNCHANGED code_point
  /\ UNCHANGED <<codec_vars, pipeline_vars, port_vars, frame_vars, upload_vars, loop_vars>>

AlphabetNext ==
  \/ EncoderConstruct
  \/ HandlerConstruct

SpecAlphabet == AlphabetInit /\ [][AlphabetNext]_vars

(***************************************************************************)
(* SpecFrame: the segmentation and the per-segment loop of encode_file for *)
(* compressed payloads whose length is near or beyond 2^32 bytes.  Only    *)
(* the lengths are kept; a length is the pair (hi, lo) standing for        *)
(* hi * 2^16 + lo.                                                         *)
(***************************************************************************)
big_add(a, b) ==
  big(a.hi + b.hi + ((a.lo + b.lo) \div 65536), (a.lo + b.lo) % 65536)

\* a - b for a >= b
big_sub(a, b) ==
  IF a.lo >= b.lo THEN big(a.hi - b.hi, a.lo - b.lo)
  ELSE big(a.hi - b.hi - 1, a.lo + 65536 - b.lo)

big_lt(a, b) == a.hi < b.hi \/ (a.hi = b.hi /\ a.lo < b.lo)

\* min(a, b)
big_min(a, b) == IF big_lt(a, b) THEN a ELSE b

RECURSIVE big_times(_, _)
big_times(a, n) == IF n = 0 THEN big(0, 0) ELSE big_add(big_times(a, n - 1), a)

\* seg_len.to_bytes(8, byteorder="big"): no length of the model overflows it
to_bytes8_overflows(seg_len) == FALSE

\* seg_len.to_bytes(4, byteorder="big") raises OverflowError
to_bytes4_overflows(seg_len) == seg_len.hi >= 65536

\* the while loop of encode_file on lengths: the lengths of the segments
RECURSIVE split_lengths(_, _, _)
split_lengths(comp, start, size) ==
  IF big_lt(start, comp)
  THEN LET end == big_min(big_add(start, size), comp)
       IN <<big_sub(end, start)>> \o split_lengths(comp, end, size)
  ELSE <<>>

\* most segments of a run
MaxFrameSegments == 3

\* len(compressed_data): 5, 2^31, 2^32 - 1, 2^32, 2^32 + 1, 3 * 2^31, 2^33, 2^33 + 7
CompLens ==
  {big(0, 5), big(32768, 0), big(65535, 65535), big(65536, 0), big(65536, 1),
   big(98304, 0), big(131072, 0), big(131072, 7)}

\* segment_size: 2, 5, 2^30, 2^31, 2^32 - 1, 2^32, 2^32 + 1, 2^33
FrameSegmentSizes ==
  {big(0, 2), big(0, 5), big(16384, 0), big(32768, 0), big(65535, 65535),
   big(65536, 0), big(65536, 1), big(131072, 0)}

FrameInit ==
  /\ CodecOff
  /\ PipelineOff
  /\ PortOff
  /\ AlphabetOff
  /\ UploadOff
  /\ LoopOff
  /\ frame_pc = "new"
  /\ comp_len \in CompLens
  /\ frame_segment_size \in FrameSegmentSizes
  /\ ~big_lt(big_times(frame_segment_size, MaxFrameSegments), comp_len)
  /\ segment_lens = <<>>
  /\ store_calls = 0
  /\ frame_error = "none"

\* encode_file up to the end of its while loop
FrameSegmentation ==
  /\ frame_pc = "new"
  /\ segment_lens' = split_lengths(comp_len, big(0, 0), frame_segment_size)
  /\ frame_pc' = "loop"
  /\ UNCHANGED <<comp_len, frame_segment_size, store_calls, frame_error>>
  /\ UNCHANGED <<codec_vars, pipeline_vars, port_vars, alphabet_vars, upload_vars, loop_vars>>

\* one pass of the for loop: header, cy_encode, store_segment
FrameStoreSegment ==
  /\ frame_pc = "loop"
  /\ store_calls < Len(segment_lens)
  /\ ~to_bytes4_overflows(segment_lens[store_calls + 1])
  /\ store_calls' = store_calls + 1
  /\ UNCHANGED <<frame_pc, comp_len, frame_segment_size, segment_lens, frame_error>>
  /\ UNCHANGED <<codec_vars, pipeline_vars, port_vars, alphabet_vars, upload_vars, loop_vars>>

\* one pass of the for loop that ends at the header: OverflowError
FrameHeaderOverflow ==
  /\ frame_pc = "loop"
  /\ store_calls < Len(segment_lens)
  /\ to_bytes4_overflows(segment_lens[store_calls + 1])
  /\ frame_error' = "OverflowError"
  /\ frame_pc' = "raised"
  /\ UNCHANGED <<comp_len, frame_segment_size, segment_lens, store_calls>>
  /\ UNCHANGED <<codec_vars, pipeline_vars, port_vars, alphabet_vars, upload_vars, loop_vars>>

\* the for loop is over and encode_file returns
FrameReturn ==
  /\ frame_pc = "loop"
  /\ store_calls = Len(segment_lens)
  /\ frame_pc' = "returned"
  /\ UNCHANGED <<comp_len, frame_segment_size, segment_lens, store_calls, frame_error>>
  /\ UNCHANGED <<codec_vars, pipeline_vars, port_vars, alphabet_vars, upload_vars, loop_vars>>

FrameNext ==
  \/ FrameSegmentation
  \/ FrameStoreSegment
  \/ FrameHeaderOverflow
  \/ FrameReturn

SpecFrame == FrameInit /\ [][FrameNext]_vars

(***************************************************************************)
(* SpecUpload: one call of AzureBlobStorageHandler.store_segment on an     *)
(* empty container, its uploads run by the threads of a ThreadPoolExecutor,*)
(* followed by retrieve_segments.  upload_pc is "new", "submit" (the for   *)
(* loop over the chunks), "collect" (the as_completed loop), "unwind" (an  *)
(* exception is leaving the with block), "returned", "raised" or           *)
(* "retrieved".  A future is "pending" (queued), "running", "finished" or  *)
(* "failed" (upload_blob raised).                                          *)
(***************************************************************************)
MaxUploadLen == 3

MaxWorkers == 2

\* the futures that the loop "for future in wait(futures, FIRST_COMPLETED)"
\* would still go through
first_completed_pending(submitted, handed_out) ==
  IF handed_out = {} THEN DOMAIN submitted ELSE {}

\* the futures that "for future in as_completed(futures)" has yet to yield
as_completed_pending(submitted, handed_out) == DOMAIN submitted \ handed_out

\* a future is done
future_done(state) == state \in {"finished", "failed"}

\* the number of uploads in flight
in_flight(submitted) == Cardinality({k \in DOMAIN submitted : submitted[k] = "running"})

\* chunks = [encoded_segment[i:i+chunk_size] for i in range(0, len(encoded_segment), chunk_size)]
upload_chunks == split_chunks(encoded_segment, upload_chunk_size)

UploadInit ==
  /\ CodecOff
  /\ PipelineOff
  /\ PortOff
  /\ AlphabetOff
  /\ FrameOff
  /\ LoopOff
  /\ upload_pc = "new"
  /\ upload_seg_index \in PortIndices
  /\ encoded_segment \in SeqsUpTo(PortChars, MaxUploadLen)
  /\ upload_chunk_size \in 1..MaxPortChunkSize
  /\ max_workers \in 0..MaxWorkers
  /\ futures = <<>>
  /\ yielded = {}
  /\ completion = <<>>
  /\ container = {}
  /\ upload_segments = <<>>

upload_inputs == <<upload_seg_index, encoded_segment, upload_chunk_size, max_workers>>

\* ThreadPoolExecutor(max_workers=max_workers), which raises ValueError for
\* max_workers <= 0
ExecutorNew ==
  /\ upload_pc = "new"
  /\ upload_pc' = IF max_workers <= 0 THEN "raised" ELSE "submit"
  /\ UNCHANGED <<upload_inputs, futures, yielded, completion, container, upload_segments>>
  /\ UNCHANGED <<codec_vars, pipeline_vars, port_vars, alphabet_vars, frame_vars, loop_vars>>

\* one turn of the for loop: executor.submit(upload_blob, ...) queues the
\* upload of the next chunk; the loop ends when every chunk was submitted
ExecutorSubmit ==
  /\ upload_pc = "submit"
  /\ IF Len(futures) < Len(upload_chunks)
     THEN futures' = Append(futures, "pending") /\ UNCHANGED upload_pc
     ELSE upload_pc' = "collect" /\ UNCHANGED futures
  /\ UNCHANGED <<upload_inputs, yielded, completion, container, upload_segments>>
  /\ UNCHANGED <<codec_vars, pipeline_vars, port_vars, alphabet_vars, frame_vars, loop_vars>>

\* a worker thread takes the oldest queued upload, no more than max_workers
\* being in flight
WorkerStart ==
  /\ upload_pc \in {"submit", "collect", "unwind"}
  /\ in_flight(futures) < max_workers
  /\ \E k \in DOMAIN futures :
       /\ futures[k] = "pending"
       /\ \A j \in 1..(k - 1) : futures[j] # "pending"
       /\ futures' = [futures EXCEPT ![k] = "running"]
  /\ UNCHANGED <<upload_pc, upload_inputs, yielded, completion, container, upload_segments>>
  /\ UNCHANGED <<codec_vars, pipeline_vars, port_vars, alphabet_vars, frame_vars, loop_vars>>

\* container_client.upload_blob(name=blob_name, data=b"", overwrite=True)
\* returns in a worker thread
WorkerUpload ==
  /\ upload_pc \in {"submit", "collect", "unwind"}
  /\ \E k \in DOMAIN futures :
       /\ futures[k] = "running"
       /\ futures' = [futures EXCEPT ![k] = "finished"]
       /\ completion' = Append(completion, k)
       /\ container' = container \cup
            {azure_blob_name(blob_prefix, upload_seg_index, k - 1, upload_chunks[k])}
  /\ UNCHANGED <<upload_pc, upload_inputs, yielded, upload_segments>>
  /\ UNCHANGED <<codec_vars, pipeline_vars, port_vars, alphabet_vars, frame_vars, loop_vars>>

\* container_client.upload_blob raises in a worker thread
WorkerFail ==
  /\ upload_pc \in {"submit", "collect", "unwind"}
  /\ \E k \in DOMAIN futures :
       /\ futures[k] = "running"
       /\ futures' = [futures EXCEPT ![k] = "failed"]
       /\ completion' = Append(completion, k)
  /\ UNCHANGED <<upload_pc, upload_inputs, yielded, container, upload_segments>>
  /\ UNCHANGED <<codec_vars, pipeline_vars, port_vars, alphabet_vars, frame_vars, loop_vars>>

\* one turn of the as_completed loop: a done future is yielded, and
\* future.result() returns or re-raises the upload's exception
AsCompletedYield ==
  /\ upload_pc = "collect"
  /\ \E k \in as_completed_pending(futures, yielded) :
       /\ future_done(futures[k])
       /\ yielded' = yielded \cup {k}
       /\ upload_pc' = IF futures[k] = "failed" THEN "unwind" ELSE "collect"
  /\ UNCHANGED <<upload_inputs, futures, completion, container, upload_segments>>
  /\ UNCHANGED <<codec_vars, pipeline_vars, port_vars, alphabet_vars, frame_vars, loop_vars>>

\* the end of the with block, executor.shutdown(wait=True): it returns once
\* every submitted upload is done, and store_segment then returns, or
\* raises what was on its way out
ExecutorShutdown ==
  /\ \/ upload_pc = "collect" /\ as_completed_pending(futures, yielded) = {}
     \/ upload_pc = "unwind"
  /\ \A k \in DOMAIN futures : future_done(futures[k])
  /\ upload_pc' = IF upload_pc = "unwind" THEN "raised" ELSE "returned"
  /\ UNCHANGED <<upload_inputs, futures, yielded, completion, container, upload_segments>>
  /\ UNCHANGED <<codec_vars, pipeline_vars, port_vars, alphabet_vars, frame_vars, loop_vars>>

\* retrieve_segments() after store_segment has returned
UploadRetrieveSegments ==
  /\ upload_pc = "returned"
  /\ \E r \in azure_retrieve_segments(container, blob_prefix) : upload_segments' = r.segments
  /\ upload_pc' = "retrieved"
  /\ UNCHANGED <<upload_inputs, futures, yielded, completion, container>>
  /\ UNCHANGED <<codec_vars, pipeline_vars, port_vars, alphabet_vars, frame_vars, loop_vars>>

UploadNext ==
  \/ ExecutorNew
  \/ ExecutorSubmit
  \/ WorkerStart
  \/ WorkerUpload
  \/ WorkerFail
  \/ AsCompletedYield
  \/ ExecutorShutdown
  \/ UploadRetrieveSegments

SpecUpload == UploadInit /\ [][UploadNext]_vars

(***************************************************************************)
(* SpecLoop: the while loop of encode_file and encode_file_to_filenames    *)
(* that cuts compressed_data into segments, one iteration at a time, for   *)
(* every segment_size the constructor takes.                               *)
(***************************************************************************)
\* segment_size ranges over -MaxLoopSegmentSize..MaxLoopSegmentSize
MaxLoopSegmentSize == 10

\* the iterations followed
MaxIterations == 6

\* len(compressed_data) for the input files of Spec
LoopCompLens == {Len(zlib_compress(d)) : d \in SeqsUpTo(InputBytes, MaxInputLen)}

\* min(a, b)
min(a, b) == IF a < b THEN a ELSE b

LoopInit ==
  /\ CodecOff
  /\ PipelineOff
  /\ PortOff
  /\ AlphabetOff
  /\ FrameOff
  /\ UploadOff
  /\ loop_pc = "while"
  /\ loop_comp_len \in LoopCompLens
  /\ loop_segment_size \in (-MaxLoopSegmentSize)..MaxLoopSegmentSize
  /\ loop_start = 0
  /\ loop_segments = 0

\* one iteration: end = min(start + self.segment_size, comp_len),
\* segments.append(compressed_data[start:end]), start = end
LoopIterate ==
  /\ loop_pc = "while"
  /\ loop_start < loop_comp_len
  /\ loop_segments < MaxIterations
  /\ loop_start' = min(loop_start + loop_segment_size, loop_comp_len)
  /\ loop_segments' = loop_segments + 1
  /\ UNCHANGED <<loop_pc, loop_comp_len, loop_segment_size>>
  /\ UNCHANGED <<codec_vars, pipeline_vars, port_vars, alphabet_vars, frame_vars, upload_vars>>

\* the loop test fails and the loop is left
LoopExit ==
  /\ loop_pc = "while"
  /\ ~(loop_start < loop_comp_len)
  /\ loop_pc' = "done"
  /\ UNCHANGED <<loop_comp_len, loop_segment_size, loop_start, loop_segments>>
  /\ UNCHANGED <<codec_vars, pipeline_vars, port_vars, alphabet_vars, frame_vars, upload_vars>>

LoopNext == LoopIterate \/ LoopExit

SpecLoop == LoopInit /\ [][LoopNext]_vars

(***************************************************************************)
(* Claims.                                                                 *)
(***************************************************************************)
\* the decode call has returned or raised
Decoded == pc = "done"

\* the characters the decoding codec accepts
valid_chars == IF variant = "handler" THEN DOMAIN handler_reverse_map ELSE DOMAIN encoder_reverse_map

\* the ordinals found in a folder are exactly 0, 1, ..., n-1, one object each
ordinals_exact(folder) ==
  LET entries == chunk_entries(scandir_files(fs.files, folder))
  IN {e.idx : e \in entries} = 0..(Cardinality(entries) - 1)

\* C1: encode_file into an empty location followed by decode_file from it
\* writes an output equal to the input, for every input and configuration.
C1_RoundTrip ==
  Decoded /\ variant = "encoder" /\ tampered = "none"
    => outcome.written /\ outcome.data = original_data

\* C2: encode_file_to_filenames(input, D) followed by
\* decode_filenames_to_file(D, output) with the same D writes an output equal
\* to the input.
C2_SameDirectoryRoundTrip ==
  Decoded /\ variant = "handler" /\ tampered = "none" /\ main_folder = base_output_dir
    => outcome.written /\ outcome.data = original_data

\* C5: when the ordinals found for a segment are not exactly 0..n-1, decode
\* fails with MissingChunk.
C5_MissingChunk ==
  Decoded /\ (\E f \in part_folders_of(fs, main_folder) : ~ordinals_exact(Append(main_folder, f.name)))
    => outcome.error = "MissingChunk"

\* C8: a segment that decodes to fewer than 4 bytes, or to fewer payload
\* bytes than its header declares, makes decode fail with TruncatedFrame.
C8_TruncatedFrame ==
  Decoded /\ (outcome.too_short # {} \/ outcome.mismatched # {})
    => outcome.error = "TruncatedFrame"

C3_FramingExactness ==
  codec_pc = "decoded" /\ framed /\ (8 * (4 + Len(seg))) % codec_chunk_bits # 0
    => seg_data = seg

\* C4, the scenario with chunk_bits = 3: the byte 0xFF is encoded as the
\* symbols 7, 7, 3, and decoding them and truncating to length 1 gives 0xFF.
C4_ConcreteScenario ==
  codec_pc = "decoded" /\ ~framed /\ codec_chunk_bits = 3 /\ seg = <<255>>
    => /\ encoded = <<codec_alphabet[8], codec_alphabet[8], codec_alphabet[4]>>
       /\ seg_data = <<255>>

\* the chunk files of segment k hold a character outside the decode subset
has_invalid_char(k) ==
  \E i \in 1..Len(outcome.items[k].str) : outcome.items[k].str[i] \notin valid_chars

\* C6: when the string of a segment holds a character that is not one of the
\* first 2^chunk_bits alphabet entries, the bit-pack decode of that string
\* raises and returns no bytes, and the decode call fails with InvalidSymbol
\* and writes nothing.
C6_InvalidSymbol ==
  Decoded /\ (\E k \in 1..Len(outcome.items) : has_invalid_char(k))
    => /\ outcome.error = "InvalidSymbol"
       /\ ~outcome.written
       /\ outcome.data = <<>>
       /\ \A k \in 1..Len(outcome.items) :
            has_invalid_char(k) =>
              cy_decode(outcome.items[k].str,
                        IF variant = "handler" THEN handler_chunk_bits ELSE encoder_chunk_bits,
                        IF variant = "handler" THEN handler_reverse_map ELSE encoder_reverse_map)
                = [raised |-> TRUE, out_bytes |-> <<>>]

\* a chunk was replaced by the alphabet entry of index 2^chunk_bits and
\* decode_file failed on it
C6_Witness ==
  /\ Decoded /\ variant = "encoder" /\ tampered = "chunk replaced"
  /\ outcome.error = "InvalidSymbol"
  /\ \E k \in 1..Len(outcome.items) : \E i \in 1..Len(outcome.items[k].str) :
       outcome.items[k].str[i] = encoder_alphabet[2^encoder_chunk_bits + 1]

\* what the decode call found in storage was an empty mapping
retrieved_nothing ==
  IF variant = "handler"
  THEN main_folder \in fs.dirs /\ part_folders_of(fs, main_folder) = {}
  ELSE \A r \in local_retrieve_segments(fs, main_folder) :
         ~r.raised /\ DOMAIN r.segments = {}

\* C7: when retrieval returns an empty mapping the decode call fails with
\* NoSegmentsFound, having decoded and decompressed nothing and not having
\* touched the output path.
C7_NoSegmentsFound ==
  Decoded /\ retrieved_nothing
    => /\ outcome.error = "NoSegmentsFound"
       /\ outcome.stage = "retrieve"
       /\ outcome.items = <<>>
       /\ outcome.accumulated_compressed = <<>>
       /\ ~outcome.written

\* decode_file ran on a handler whose only segment had been deleted
C7_Witness ==
  /\ Decoded /\ variant = "encoder" /\ tampered = "segment deleted"
  /\ retrieved_nothing
  /\ outcome.error = "NoSegmentsFound"

C10_PortRoundTrip == port_pc = "retrieved" => segments_map = stored

\* the calls that stored a non-empty string
stored_non_empty == [i \in {j \in DOMAIN stored : stored[j] # <<>>} |-> stored[i]]

\* C10, amended: retrieve_segments returns exactly the mapping i -> s_i of
\* the calls whose s_i is not empty; an index stored with the empty string
\* is returned as i -> "" by the local back-end and is absent from what the
\* Azure back-end returns.
C10_PortRoundTripNonEmpty ==
  port_pc = "retrieved"
    => segments_map = IF backend = "azure" THEN stored_non_empty ELSE stored

\* two segments were stored in the container, one empty and one of two
\* chunks, and only the second was returned
C10_Witness ==
  /\ port_pc = "retrieved" /\ backend = "azure"
  /\ DOMAIN stored = {1, 2}
  /\ stored[1] = <<>> /\ stored[2] = <<95, 48>>
  /\ Cardinality(blobs) = 2
  /\ segments_map = (2 :> <<95, 48>>)

\* i written with five decimal digits, k with three
five_digits(i) ==
  <<48 + ((i \div 10000) % 10), 48 + ((i \div 1000) % 10), 48 + ((i \div 100) % 10),
    48 + ((i \div 10) % 10), 48 + (i % 10)>>

three_digits(k) == <<48 + ((k \div 100) % 10), 48 + ((k \div 10) % 10), 48 + (k % 10)>>

\* the (segment index, ordinal, text) of every chunk handed to storage so far
stored_objects ==
  UNION {{[seg_index |-> i, ordinal |-> k - 1,
           text |-> split_chunks(stored[i], stored_chunk_size[i])[k]] :
            k \in 1..Len(split_chunks(stored[i], stored_chunk_size[i]))} : i \in DOMAIN stored}

\* the names claimed for an object: its container and its own name
container_name(o) == <<112, 97, 114, 116, 95>> \o five_digits(o.seg_index)

object_name(o) == three_digits(o.ordinal) \o <<95>> \o o.text

flat_name(o) == blob_prefix \o <<47>> \o container_name(o) \o <<47>> \o object_name(o)

\* C11: every stored object is named part_<i, 5 digits> / <k, 3 digits>_<t>
\* (joined with "/" under the prefix on the flat back-end), storage holds no
\* other object, and parsing the name on retrieval gives back (i, k, t).
C11_NamingScheme ==
  port_pc # "off" =>
    /\ backend = "local" =>
         /\ port_fs.files = {<<container_name(o), object_name(o)>> : o \in stored_objects}
         /\ \A o \in stored_objects :
              /\ [idx |-> o.seg_index, name |-> container_name(o)]
                   \in part_folders_of(port_fs, base_output_dir)
              /\ chunk_entries({object_name(o)})
                   = {[idx |-> o.ordinal, chunk |-> o.text, name |-> object_name(o)]}
    /\ backend = "azure" =>
         /\ blobs = {flat_name(o) : o \in stored_objects}
         /\ \A o \in stored_objects :
              azure_parse(flat_name(o), blob_prefix)
                = [ok |-> TRUE, seg_index |-> o.seg_index, idx |-> o.ordinal,
                   chunk |-> o.text, name |-> flat_name(o)]

\* the container holds the two chunks "_" and "0" of segment 2 under the
\* names p/part_00002/000__ and p/part_00002/001_0
C11_Witness ==
  /\ backend = "azure" /\ 2 \in DOMAIN stored
  /\ stored[2] = <<95, 48>> /\ stored_chunk_size[2] = 1
  /\ <<112, 47, 112, 97, 114, 116, 95, 48, 48, 48, 48, 50, 47, 48, 48, 48, 95, 95>> \in blobs
  /\ <<112, 47, 112, 97, 114, 116, 95, 48, 48, 48, 48, 50, 47, 48, 48, 49, 95, 48>> \in blobs

\* the segments of the encode call, and their concatenation
built_segments == split_segments(zlib_compress(original_data), 0, segment_size)

RECURSIVE concat_first(_, _)
concat_first(seqs, n) == IF n = 0 THEN <<>> ELSE concat_first(seqs, n - 1) \o seqs[n]

\* C12: the segments of an encode call are stored under the indices 1..n,
\* each holds between 1 and segment_size bytes, all but the last exactly
\* segment_size, and their concatenation in index order is the compressed
\* payload.
C12_Segmentation ==
  pc = "encoded" /\ tampered = "none" =>
    LET n == Len(built_segments)
    IN /\ {f.idx : f \in part_folders_of(fs, corpus_folder)} = 1..n
       /\ Cardinality(part_folders_of(fs, corpus_folder)) = n
       /\ \A k \in 1..n : Len(built_segments[k]) \in 1..segment_size
       /\ \A k \in 1..(n - 1) : Len(built_segments[k]) = segment_size
       /\ concat_first(built_segments, n) = zlib_compress(original_data)

\* an encode call that made several segments, the last one short
C12_Witness ==
  /\ pc = "encoded" /\ tampered = "none" /\ segment_size = 4
  /\ Len(built_segments) = 3
  /\ Len(built_segments[3]) = 1
  /\ {f.idx : f \in part_folders_of(fs, corpus_folder)} = {1, 2, 3}

\* the (ordinal, text) pairs that retrieval reads for segment i
objects_of(i) ==
  IF backend = "azure"
  THEN {[idx |-> e.idx, chunk |-> e.chunk, name |-> e.name] :
          e \in {x \in {azure_parse(b, blob_prefix) : b \in blobs} : x.ok /\ x.seg_index = i}}
  ELSE chunk_entries(scandir_files(port_fs.files, Append(base_output_dir, part_folder_name(i))))

\* ceil(len / size)
ceil_div(len, size) == CHOOSE m \in 0..len : m * size >= len /\ (m - 1) * size < len

\* C13: store_segment leaves ceil(L / chunk_size) chunks for a string of
\* length L, with the ordinals 0, 1, 2, ..., each chunk non-empty and at most
\* chunk_size long, all but the last exactly chunk_size, chunk k being the
\* k-th piece of the string, so that the chunks in ordinal order give the
\* string back.
C13_Chunking ==
  port_pc # "off" =>
    \A i \in DOMAIN stored :
      LET s == stored[i]
          cs == stored_chunk_size[i]
          n == ceil_div(Len(s), cs)
          objs == objects_of(i)
      IN /\ Cardinality(objs) = n
         /\ {o.idx : o \in objs} = 0..(n - 1)
         /\ \A o \in objs :
              /\ Len(o.chunk) \in 1..cs
              /\ o.idx < n - 1 => Len(o.chunk) = cs
              /\ o.chunk = SubSeq(s, o.idx * cs + 1, o.idx * cs + Len(o.chunk))
         /\ sorted_joins(objs) = {s}

\* a string of three characters stored with chunk_size 2: two chunks, the
\* last one short
C13_Witness ==
  /\ backend = "local" /\ 1 \in DOMAIN stored
  /\ stored[1] = <<48, 95, 48>> /\ stored_chunk_size[1] = 2
  /\ {[idx |-> o.idx, chunk |-> o.chunk] : o \in objects_of(1)}
       = {[idx |-> 0, chunk |-> <<48, 95>>], [idx |-> 1, chunk |-> <<48>>]}

\* the exclusion rules of the alphabet: controls and delete, surrogates, the
\* nine reserved characters, the two noncharacters, space and period
rule_excluded(cp) ==
  \/ cp < 32 \/ cp = 127
  \/ cp \in 55296..57343
  \/ cp \in {92, 47, 58, 42, 63, 34, 60, 62, 124}
  \/ cp \in {65534, 65535}
  \/ cp \in {32, 46}

\* the alphabet of the instance constructed
built_alphabet == IF builder = "encoder" THEN encoder_alphabet ELSE handler_alphabet

azure_excluded(cp) ==
  \/ cp \in 128..160
  \/ cp \in 65024..65039
  \/ cp \in 65520..65532
  \/ cp \in 64926..65018
  \/ cp \in 65436..65533
  \/ cp \in {173, 65279, 65440}

C15_AlphabetDeterminism ==
  alpha_pc = "built" =>
    /\ in_alphabet = utils_is_valid_bmp_char(code_point)
    /\ in_alphabet = handler_is_valid_bmp_char(code_point)
    /\ symbol_value = map_get(encoder_reverse_map, code_point)
    /\ symbol_value = map_get(handler_reverse_map, code_point)
    /\ instance_chunk_bits = encoder_chunk_bits
    /\ instance_chunk_bits = handler_chunk_bits

\* a segment of the run is 2^32 bytes long or longer
segment_too_large ==
  \E k \in 1..Len(segment_lens) : segment_lens[k].hi >= 65536

\* C16: when a segment's length does not fit the 4-byte header, no
\* store_segment call of the run is ever made, and encode_file ends with the
\* error (OverflowError, the SegmentTooLarge of the design) and never returns.
C16_SegmentTooLarge ==
  frame_pc \in {"loop", "returned", "raised"} /\ segment_too_large =>
    /\ store_calls = 0
    /\ frame_pc # "returned"
    /\ frame_pc = "raised" => frame_error = "OverflowError"

\* a run of two segments, the first 2^32 bytes long, ended in the error
\* before any store_segment call
C16_Witness ==
  /\ frame_pc = "raised" /\ frame_error = "OverflowError"
  /\ Len(segment_lens) = 2
  /\ segment_lens[1] = big(65536, 0)
  /\ store_calls = 0

\* the chunk_bits and reverse map of the instance that decoded
decoder_chunk_bits == IF variant = "handler" THEN handler_chunk_bits ELSE encoder_chunk_bits

decoder_reverse_map == IF variant = "handler" THEN handler_reverse_map ELSE encoder_reverse_map

\* C17: the output file is written only after every retrieved segment has
\* been decoded and the accumulated payload has been decompressed without
\* error; a decode call that fails leaves nothing at the output path.
C17_WriteLast ==
  Decoded =>
    /\ outcome.written =>
         /\ outcome.error = "none"
         /\ \A k \in 1..Len(outcome.items) :
              ~outcome.items[k].no_files =>
                ~cy_decode(outcome.items[k].str, decoder_chunk_bits, decoder_reverse_map).raised
         /\ ~zlib_decompress(outcome.accumulated_compressed).raised
         /\ outcome.data = zlib_decompress(outcome.accumulated_compressed).data
    /\ outcome.error # "none" => ~outcome.written /\ outcome.data = <<>>

\* a decode call that went through all its segments and failed at the
\* decompression, leaving no output
C17_Witness ==
  /\ Decoded /\ Len(outcome.items) >= 2
  /\ outcome.error = "zlib.error" /\ outcome.stage = "decompress"
  /\ ~outcome.written

\* the mapping that the decode call worked on, read off the segments it
\* went through
same_mapping(r) ==
  /\ ~r.raised
  /\ DOMAIN r.segments = {outcome.items[k].idx : k \in 1..Len(outcome.items)}
  /\ \A k \in 1..Len(outcome.items) : r.segments[outcome.items[k].idx] = outcome.items[k].str

\* C18: the decode call goes through the segments in strictly ascending
\* index order, and decode_file gives the same result for every insertion
\* order of the keys of the mapping it was handed.
C18_OrderIndependence ==
  Decoded /\ outcome.stage \in {"loop", "decompress", "write"} =>
    /\ \A k \in 1..(Len(outcome.items) - 1) : outcome.items[k].idx < outcome.items[k + 1].idx
    /\ variant = "encoder" =>
         \A r \in local_retrieve_segments(fs, main_folder) :
           same_mapping(r) => decode_file(r) = outcome

\* decode_file ran on a mapping of three segments or more, which the scan
\* can hand over in descending key order too
C18_Witness ==
  /\ Decoded /\ variant = "encoder" /\ tampered = "none"
  /\ Len(outcome.items) >= 3
  /\ \E r \in local_retrieve_segments(fs, main_folder) :
       /\ same_mapping(r)
       /\ r.keys = reversed(sorted_seq(DOMAIN r.segments))
       /\ decode_file(r) = outcome

\* what the loop would have accumulated from the first n items had it
\* appended nothing for a segment without a full header or with fewer
\* payload bytes than its header declares
RECURSIVE skip_policy_accumulated(_, _)
skip_policy_accumulated(items, n) ==
  IF n = 0 THEN <<>>
  ELSE LET before == skip_policy_accumulated(items, n - 1)
           dec == cy_decode(items[n].str, decoder_chunk_bits, decoder_reverse_map)
       IN IF items[n].no_files \/ dec.raised \/ Len(dec.out_bytes) < 4 THEN before
          ELSE LET expected_seg_len == from_bytes4(dec.out_bytes)
                   sd == Slice(dec.out_bytes, 4, 4 + expected_seg_len)
               IN IF Len(sd) # expected_seg_len THEN before ELSE before \o sd

\* C19: a segment whose decoded data is shorter than the header, or holds
\* fewer payload bytes than the header declares, is skipped: none of its
\* bytes are in the accumulated compressed payload, and the other segments
\* are still processed.
C19_LogAndSkip ==
  Decoded /\ outcome.stage \in {"decompress", "write"} =>
    outcome.accumulated_compressed = skip_policy_accumulated(outcome.items, Len(outcome.items))

\* the blob names of the chunks of the segment handed to store_segment
upload_blob_names ==
  {azure_blob_name(blob_prefix, upload_seg_index, k - 1, upload_chunks[k]) :
     k \in 1..Len(upload_chunks)}

\* store_segment has returned without error, before or after the retrieve call
upload_returned == upload_pc \in {"returned", "retrieved"}

\* under every interleaving of the uploads, store_segment returns without
\* error only once the upload of every chunk 0..n-1 has completed well
uploads_complete ==
  upload_returned =>
    /\ Len(futures) = Len(upload_chunks)
    /\ \A k \in DOMAIN futures : futures[k] = "finished"
    /\ upload_blob_names \subseteq container

\* C20 as stated: store_segment returns without error only after every
\* chunk has been uploaded, and a later retrieve_segments returns the
\* original encoded string under the segment's index, in whatever order
\* the uploads completed.
C20_ConcurrentUploads ==
  /\ uploads_complete
  /\ upload_pc = "retrieved" => upload_segments = (upload_seg_index :> encoded_segment)

\* C20, amended: as stated for a non-empty encoded string; an empty one has
\* no chunk, nothing is uploaded for it and retrieve_segments returns no
\* entry for the segment.
C20_ConcurrentUploadsNonEmpty ==
  /\ uploads_complete
  /\ upload_pc = "retrieved" =>
       upload_segments = IF encoded_segment = <<>> THEN <<>>
                         ELSE (upload_seg_index :> encoded_segment)

\* three chunks went through two worker threads, the second completed
\* before the first, and retrieve_segments gave the string back
C20_Witness ==
  /\ upload_pc = "retrieved"
  /\ max_workers = 2 /\ Len(upload_chunks) = 3
  /\ completion = <<2, 1, 3>>
  /\ encoded_segment = <<95, 48, 48>>
  /\ upload_segments = (upload_seg_index :> encoded_segment)

\* C21: once the as_completed loop has seen a failed upload and the
\* exception is on its way out of store_segment, no further chunk object
\* of the segment is uploaded.
C21_Cancellation ==
  [][upload_pc = "unwind" => container' = container]_vars

\* b is the largest integer with 2^b <= len(alphabet)
largest_width(b, alphabet) == 2^b <= Len(alphabet) /\ Len(alphabet) < 2^(b + 1)

\* C22: the constructors' chunk_bits is the largest b with
\* 2^b <= len(alphabet), and every character that bit-pack encode emits,
\* the partial trailing one included, has an alphabet index below
\* 2^chunk_bits and so is a key of the reverse map.
C22_EmittedInSubset ==
  /\ largest_width(encoder_chunk_bits, encoder_alphabet)
  /\ largest_width(handler_chunk_bits, handler_alphabet)
  /\ codec_pc \in {"encoded", "decoded"} =>
       \A k \in 1..Len(encoded) :
         /\ encoded[k] \in DOMAIN codec_reverse_map(codec_chunk_bits)
         /\ codec_reverse_map(codec_chunk_bits)[encoded[k]] < 2^codec_chunk_bits
         /\ codec_alphabet[codec_reverse_map(codec_chunk_bits)[encoded[k]] + 1] = encoded[k]

\* a segment was encoded with the constructor's width and its last
\* character carries a partial symbol
C22_Witness ==
  /\ codec_pc = "encoded" /\ codec_chunk_bits = handler_chunk_bits
  /\ seg_with_header = <<255, 255>>
  /\ Len(encoded) = 2
  /\ (8 * Len(seg_with_header)) % codec_chunk_bits # 0

low_bits(data, r) ==
  LET n == Len(data)
  IN ((IF n >= 2 THEN data[n - 1] ELSE 0) * 256 + (IF n >= 1 THEN data[n] ELSE 0)) % 2^r

\* C24: in bit-pack encode of n bytes, (8*j mod chunk_bits) bits, fewer
\* than chunk_bits, are buffered after the j-th byte; the output has
\* ceil(8*n / chunk_bits) characters, and when 8*n mod chunk_bits is not
\* zero its last character has as index the remaining bits, zero-extended
\* on the high side.
C24_EncodeBitCount ==
  codec_pc \in {"encoded", "decoded"} =>
    LET n == Len(seg_with_header)
        w == codec_chunk_bits
        rem == (8 * n) % w
    IN /\ \A j \in 0..n :
            LET st == encode_bytes(seg_with_header, j, w, codec_alphabet)
            IN /\ st.bits_in_buffer < w
               /\ st.bits_in_buffer = (8 * j) % w
               /\ Len(st.out_chars) = (8 * j) \div w
       /\ Len(encoded) = ceil_div(8 * n, w)
       /\ n = 0 => encoded = <<>>
       /\ rem # 0 => encoded[Len(encoded)] = codec_alphabet[low_bits(seg_with_header, rem) + 1]

\* the bytes 0x01 0xFF through the constructor's width: fifteen bits make
\* the symbol 255 and the sixteenth, a 1, makes the trailing symbol 1
C24_Witness ==
  /\ codec_pc = "encoded" /\ ~framed /\ codec_chunk_bits = handler_chunk_bits
  /\ seg_with_header = <<1, 255>>
  /\ encoded = <<codec_alphabet[256], codec_alphabet[2]>>

\* the decode call of SpecCodec has returned
codec_decoded == codec_pc \in {"decoded", "decoded given"}

\* the low r bits of the symbols of the first m characters of encoded_str,
\* each chunk_bits wide, read as one number
RECURSIVE symbols_low_bits(_, _, _, _, _)
symbols_low_bits(encoded_str, m, r, chunk_bits, char_to_value) ==
  IF r <= chunk_bits THEN char_to_value[encoded_str[m]] % 2^r
  ELSE symbols_low_bits(encoded_str, m - 1, r - chunk_bits, chunk_bits, char_to_value) * 2^chunk_bits
         + char_to_value[encoded_str[m]]

\* C25: in bit-pack decode of a string of m valid characters, fewer than 8
\* bits are buffered after each character, and the output has
\* ceil(chunk_bits*m / 8) bytes, the last one holding the bits left over, if
\* any; so the decoding of the encoding of n bytes has n bytes at least,
\* and the empty string decodes to no byte.
C25_DecodeByteCount ==
  codec_decoded =>
    LET m == Len(encoded)
        w == codec_chunk_bits
        rev == codec_reverse_map(w)
        last == decode_chars(encoded, m, w, rev)
    IN /\ ~dec_data.raised
       /\ \A j \in 0..m :
            LET st == decode_chars(encoded, j, w, rev)
            IN /\ st.bits_in_buffer < 8
               /\ st.bits_in_buffer = (w * j) % 8
               /\ Len(st.out_bytes) = (w * j) \div 8
       /\ Len(dec_data.out_bytes) = ceil_div(w * m, 8)
       /\ (w * m) % 8 # 0 =>
            dec_data.out_bytes[Len(dec_data.out_bytes)] = symbols_low_bits(encoded, m, (w * m) % 8, w, rev)
       /\ m = 0 => dec_data.out_bytes = <<>>
       /\ codec_pc = "decoded" => Len(dec_data.out_bytes) >= Len(seg_with_header)

\* three characters of the constructor's width, the last of the subset
\* first, decode to six bytes: five full ones and the five bits left over
C25_Witness ==
  /\ codec_pc = "decoded given" /\ codec_chunk_bits = handler_chunk_bits
  /\ encoded = <<codec_alphabet[2^codec_chunk_bits], codec_alphabet[2], codec_alphabet[1]>>
  /\ Len(dec_data.out_bytes) = 6

\* C26: after store_segment(i, s, chunk_size) on an index that already held
\* an earlier encoding, retrieve_segments returns s for i (s not empty):
\* nothing of the earlier encoding is in the retrieved string.
C26_LastStoreWins ==
  port_pc = "retrieved" =>
    \A i \in DOMAIN stored :
      stored[i] # <<>> => i \in DOMAIN segments_map /\ segments_map[i] = stored[i]

\* the number of chunks handed to storage by the calls on the indices in S
RECURSIVE chunks_stored(_)
chunks_stored(S) ==
  IF S = {} THEN 0
  ELSE LET i == CHOOSE x \in S : TRUE
       IN Len(split_chunks(stored[i], stored_chunk_size[i])) + chunks_stored(S \ {i})

\* C27: with segment indices of six digits and with more than a thousand
\* chunks in a segment, every chunk has an object name of its own and
\* retrieve_segments returns every stored string under its index, the
\* chunks in the order of their ordinals; the indices sort as integers.
C27_IntegerOrder ==
  /\ port_pc # "off" =>
       Cardinality(IF backend = "local" THEN port_fs.files ELSE blobs) = chunks_stored(DOMAIN stored)
  /\ port_pc = "retrieved" =>
       /\ segments_map = IF backend = "azure" THEN stored_non_empty ELSE stored
       /\ \A i, j \in DOMAIN segments_map :
            i < j => \E k \in 1..(Cardinality(DOMAIN segments_map) - 1) :
                       /\ sorted_keys(reversed(sorted_seq(DOMAIN segments_map)))[k] = i
                       /\ sorted_keys(reversed(sorted_seq(DOMAIN segments_map)))[k + 1] = j

\* the segment 100000 was stored in 1001 chunks, then the segment 99999,
\* and both came back
C27_Witness ==
  /\ port_pc = "retrieved"
  /\ DOMAIN stored = {99999, 100000}
  /\ Len(stored[100000]) = 1001 /\ stored_chunk_size[100000] = 1
  /\ stored[99999] = <<95, 48>>
  /\ segments_map = stored

\* C28: for every segment_size the constructor takes, zero and negative
\* ones included, the start offset is strictly larger after every iteration of the
\* segmentation loop, so that the loop ends.
C28_LoopTerminates ==
  [][loop_segments' = loop_segments + 1 => loop_start' > loop_start]_vars

C30_StoreFrame ==
  [][/\ port_fs.files \subseteq port_fs'.files
     /\ port_fs.dirs \subseteq port_fs'.dirs
     /\ blobs \subseteq blobs'
     /\ \A i \in DOMAIN stored' \ DOMAIN stored :
          /\ \A f \in port_fs'.files \ port_fs.files :
               SubSeq(f, 1, Len(f) - 1) = Append(base_output_dir, part_folder_name(i))
          /\ port_fs'.dirs \ port_fs.dirs
               \subseteq {base_output_dir, Append(base_output_dir, part_folder_name(i))}
          /\ \A b \in blobs' \ blobs :
               startswith(b, blob_prefix \o <<47>> \o part_folder_name(i) \o <<47>>)
     /\ port_pc' = "retrieved" => port_fs' = port_fs /\ blobs' = blobs
     /\ backend' = "local" =>
          port_fs'.files =
            UNION {chunk_files_of(Append(base_output_dir, part_folder_name(i)),
                                  stored'[i], stored_chunk_size'[i]) : i \in DOMAIN stored'}
     /\ backend' = "azure" =>
          blobs' = UNION {azure_blob_names(blob_prefix, i, stored'[i], stored_chunk_size'[i]) :
                            i \in DOMAIN stored'}]_vars

\* the segments 1 and 2 were stored, each in two chunks, in either order,
\* and retrieve_segments was called
C30_Witness ==
  /\ port_pc = "retrieved" /\ backend = "local"
  /\ DOMAIN stored = {1, 2}
  /\ stored[1] = <<48, 95>> /\ stored[2] = <<95, 95, 48>>
  /\ stored_chunk_size[1] = 1 /\ stored_chunk_size[2] = 2
  /\ Cardinality(port_fs.files) = 4
====
